---- MODULE Spec2Model ----
(***************************************************************************)
(* Model of the freq-show backend: the cache-first resolution of artists   *)
(* and albums (getOrFetchArtist / getOrFetchAlbum), the repository         *)
(* implementations behind it (MemoryStore, SQLiteStore) and the upstream   *)
(* clients it consumes.                                                    *)
(*                                                                         *)
(* Go pointers and slices are modelled by an explicit heap: a *data.Artist *)
(* or *data.Album is an address into heap.art / heap.alb, a slice is an    *)
(* address of its backing array in heap.S (strings), heap.A (albums) or    *)
(* heap.T (tracks); address 0 is nil.                                      *)
(***************************************************************************)
EXTENDS Integers, Sequences, FiniteSets, TLC

VARIABLES
    driver,   \* cfg.Database.Driver: "memory" or "sqlite"
    cfg,      \* which collaborators were handed to the router (non-nil)
    heap,     \* Go heap: structs and slice backing arrays
    mem,      \* MemoryStore.artists / MemoryStore.albums: id -> pointer
    rows,     \* SQLite tables artists / albums: id -> payload
    req,      \* per request: position in getOrFetchArtist/getOrFetchAlbum and locals
    prev,     \* the resolution that returned before the current one started
    ncalls,   \* number of resolutions started
    fn,       \* a derivation applied on its own: its name, argument and result
    tst       \* a direct user of the Repository: its records and its last call

vars == <<driver, cfg, heap, mem, rows, req, prev, ncalls, fn, tst>>

----------------------------------------------------------------------------
(* Bounds *)

MaxCalls == 2
NProcs == 1

Procs == 1..NProcs

(* Identifiers *)

NIL == 0

ArtistIDs == {"a1", "a2"}
AlbumIDs == {"r1", "r2"}

\* the identifiers requests are made for
RequestArtistIDs == {"a1"}
RequestAlbumIDs == {"r1"}

OtherID(id) ==
    CASE id = "a1" -> "a2"
      [] id = "a2" -> "a1"
      [] id = "r1" -> "r2"
      [] id = "r2" -> "r1"

\* identifiers the primary provider may put in the response to a lookup of id
RemoteIDs(id) == {id, OtherID(id), ""}

\* strings.TrimSpace(s) == "" for the identifiers of the model: the only
\* identifier with white space is the one made of a single space
\* faulty variant: only the empty identifier is refused
IsBlankOnlyEmpty(s) == s = ""

IsBlank(s) == (IF s = " " THEN "" ELSE s) = ""

----------------------------------------------------------------------------
(* Heap *)

EmptyHeap == [S |-> <<>>, A |-> <<>>, T |-> <<>>, art |-> <<>>, alb |-> <<>>]

\* make + copy of a string slice
AllocS(h, s) == [h |-> [h EXCEPT !.S = Append(@, s)], p |-> Len(h.S) + 1]
AllocT(h, s) == [h |-> [h EXCEPT !.T = Append(@, s)], p |-> Len(h.T) + 1]
AllocA(h, s) == [h |-> [h EXCEPT !.A = Append(@, s)], p |-> Len(h.A) + 1]
AllocArt(h, v) == [h |-> [h EXCEPT !.art = Append(@, v)], p |-> Len(h.art) + 1]
AllocAlb(h, v) == [h |-> [h EXCEPT !.alb = Append(@, v)], p |-> Len(h.alb) + 1]

\* len(slice) for a slice reference
LenS(h, ref) == IF ref = NIL THEN 0 ELSE Len(h.S[ref])
LenT(h, ref) == IF ref = NIL THEN 0 ELSE Len(h.T[ref])
LenA(h, ref) == IF ref = NIL THEN 0 ELSE Len(h.A[ref])

\* append([]string(nil), src...): nil for an empty source, else a fresh array
\* faulty variant: the copy shares the backing array of its source
cloneStringsAliased(h, ref) == [h |-> h, p |-> ref]

cloneStrings(h, ref) ==
    IF LenS(h, ref) = 0 THEN [h |-> h, p |-> NIL] ELSE AllocS(h, h.S[ref])

\* append([]string(nil), src...) for a source that is a value of the payload
newStrings(h, s) ==
    IF Len(s) = 0 THEN [h |-> h, p |-> NIL] ELSE AllocS(h, s)

\* faulty variant: the copy shares the backing array of its source
cloneTracksAliased(h, ref) == [h |-> h, p |-> ref]

cloneTracks(h, ref) ==
    IF LenT(h, ref) = 0 THEN [h |-> h, p |-> NIL] ELSE AllocT(h, h.T[ref])

cloneReview(src) == src

\* the struct copy of cloneAlbum: copyAlbum := *src, then the slices
cloneAlbumStruct(h, a) ==
    LET st == cloneStrings(h, a.SecondaryTypes)
        tr == cloneTracks(st.h, a.Tracks)
    IN  [h |-> tr.h,
         v |-> [a EXCEPT !.SecondaryTypes = st.p,
                         !.Tracks = tr.p,
                         !.Review = cloneReview(a.Review)]]

cloneAlbum(h, p) ==
    IF p = NIL THEN [h |-> h, p |-> NIL]
    ELSE LET c == cloneAlbumStruct(h, h.alb[p]) IN AllocAlb(c.h, c.v)

RECURSIVE cloneAlbumsLoop(_, _, _)
cloneAlbumsLoop(h, src, acc) ==
    IF src = <<>> THEN [h |-> h, v |-> acc]
    ELSE LET c == cloneAlbumStruct(h, Head(src))
         IN  cloneAlbumsLoop(c.h, Tail(src), Append(acc, c.v))

cloneAlbums(h, ref) ==
    IF LenA(h, ref) = 0 THEN [h |-> h, p |-> NIL]
    ELSE LET c == cloneAlbumsLoop(h, h.A[ref], <<>>) IN AllocA(c.h, c.v)

cloneArtist(h, p) ==
    IF p = NIL THEN [h |-> h, p |-> NIL]
    ELSE LET src == h.art[p]
             g == cloneStrings(h, src.Genres)
             r == cloneStrings(g.h, src.Related)
             a == cloneStrings(r.h, src.Aliases)
             b == cloneAlbums(a.h, src.Albums)
         IN  AllocArt(b.h, [src EXCEPT !.Genres = g.p, !.Related = r.p,
                                       !.Aliases = a.p, !.Albums = b.p])

----------------------------------------------------------------------------
(* Values: what a record is worth once every reference is followed.  This  *)
(* is what the JSON encoding of a record carries.                          *)

StrsVal(h, ref) == IF ref = NIL THEN <<>> ELSE h.S[ref]
TracksVal(h, ref) == IF ref = NIL THEN <<>> ELSE h.T[ref]

AlbumStructVal(h, a) ==
    [a EXCEPT !.SecondaryTypes = StrsVal(h, a.SecondaryTypes),
              !.Tracks = TracksVal(h, a.Tracks)]

AlbumsVal(h, ref) ==
    IF ref = NIL THEN <<>>
    ELSE [i \in 1..Len(h.A[ref]) |-> AlbumStructVal(h, h.A[ref][i])]

ArtistStructVal(h, a) ==
    [a EXCEPT !.Genres = StrsVal(h, a.Genres),
              !.Related = StrsVal(h, a.Related),
              !.Aliases = StrsVal(h, a.Aliases),
              !.Albums = AlbumsVal(h, a.Albums)]

ArtistVal(h, p) == ArtistStructVal(h, h.art[p])
AlbumVal(h, p) == AlbumStructVal(h, h.alb[p])

----------------------------------------------------------------------------
(* Primary provider payloads (package musicbrainz) *)

\* a first-release-date is a string; strings whose characters matter are
\* modelled as sequences of one-character strings
Date1999 == <<"1", "9", "9", "9", "-", "0", "6", "-", "0", "1">>

DigitVal(c) ==
    CASE c = "0" -> 0 [] c = "1" -> 1 [] c = "2" -> 2 [] c = "3" -> 3
      [] c = "4" -> 4 [] c = "5" -> 5 [] c = "6" -> 6 [] c = "7" -> 7
      [] c = "8" -> 8 [] c = "9" -> 9 [] OTHER -> -1

DigitChar(d) == <<"0", "1", "2", "3", "4", "5", "6", "7", "8", "9">>[d + 1]

IsDigits(s) == Len(s) > 0 /\ \A i \in 1..Len(s) : DigitVal(s[i]) >= 0

RECURSIVE DigitsValue(_)
DigitsValue(s) ==
    IF s = <<>> THEN 0
    ELSE 10 * DigitsValue(SubSeq(s, 1, Len(s) - 1)) + DigitVal(s[Len(s)])

\* strconv.Atoi: an optional sign followed by decimal digits
Atoi(s) ==
    IF s # <<>> /\ s[1] \in {"+", "-"}
    THEN IF IsDigits(Tail(s))
         THEN [ok |-> TRUE,
               n |-> IF s[1] = "-" THEN 0 - DigitsValue(Tail(s)) ELSE DigitsValue(Tail(s))]
         ELSE [ok |-> FALSE, n |-> 0]
    ELSE IF IsDigits(s) THEN [ok |-> TRUE, n |-> DigitsValue(s)]
         ELSE [ok |-> FALSE, n |-> 0]

\* faulty variant: the whole date is parsed, not its first four characters
ReleaseYearOfWholeDate(rg) ==
    IF Len(rg.FirstReleaseDate) < 4 THEN 0
    ELSE LET a == Atoi(rg.FirstReleaseDate)
         IN  IF a.ok THEN a.n ELSE 0

ReleaseYear(rg) ==
    IF Len(rg.FirstReleaseDate) < 4 THEN 0
    ELSE LET a == Atoi(SubSeq(rg.FirstReleaseDate, 1, 4))
         IN  IF a.ok THEN a.n ELSE 0

RECURSIVE PrimaryArtistIDFrom(_)
PrimaryArtistIDFrom(credits) ==
    IF credits = <<>> THEN ""
    ELSE IF Head(credits).Artist.ID # "" THEN Head(credits).Artist.ID
    ELSE PrimaryArtistIDFrom(Tail(credits))

PrimaryArtistID(rg) == PrimaryArtistIDFrom(rg.ArtistCredit)

RECURSIVE PrimaryArtistNameFrom(_)
PrimaryArtistNameFrom(credits) ==
    IF credits = <<>> THEN ""
    ELSE IF Head(credits).Artist.Name # "" THEN Head(credits).Artist.Name
    ELSE IF Head(credits).Name # "" THEN Head(credits).Name
    ELSE PrimaryArtistNameFrom(Tail(credits))

PrimaryArtistName(rg) == PrimaryArtistNameFrom(rg.ArtistCredit)

\* one item of the release-group listing of an artist, as the provider sends it
ListingItem(rid) ==
    [ID |-> rid, Title |-> "Listed", PrimaryType |-> "Album",
     SecondaryTypes |-> <<"Live">>, FirstReleaseDate |-> Date1999]

\* the listing turned into ReleaseGroup values credited to the requested artist
transformReleaseGroupSearchResult(items, artistID) ==
    [i \in 1..Len(items) |->
        [ID |-> items[i].ID,
         Title |-> items[i].Title,
         PrimaryType |-> items[i].PrimaryType,
         SecondaryTypes |-> items[i].SecondaryTypes,
         FirstReleaseDate |-> items[i].FirstReleaseDate,
         ArtistCredit |-> <<[Name |-> "", Artist |-> [ID |-> artistID, Name |-> ""]]>>]]

\* what the provider can answer: an HTTP status (0: the transport failed or
\* the body did not decode) and, for 200, a body
Failures == {[code |-> 404], [code |-> 500], [code |-> 0]}

\* the musicbrainz.Artist a lookup returns: the identifier and name of the
\* payload and the non-empty alias names the provider listed, maybe none. The
\* Artist of the client has no Tags field, so what the router's transformArtist
\* reads as src.Tags is empty. Country, Type, Disambiguation and LifeSpan are
\* copied field by field and are not tracked.
ArtistBodies(id) ==
    {[ID |-> rid, Name |-> "Remote", Tags |-> <<>>, Aliases |-> al] :
        rid \in RemoteIDs(id), al \in {<<>>, <<"aka">>}}

ReleaseGroupBodies(id) ==
    {[ID |-> rid, Title |-> "Remote Album", PrimaryType |-> "Album",
      SecondaryTypes |-> <<"Live">>, FirstReleaseDate |-> Date1999,
      ArtistCredit |-> <<[Name |-> "Remote Artist",
                          Artist |-> [ID |-> "artist-1", Name |-> "Remote Artist"]]>>] :
        rid \in RemoteIDs(id)}

ListingBodies == {<<>>, <<ListingItem("r1")>>}

\* the releases a release group lists (inc=releases)
Release(id, status) == [ID |-> id, Title |-> "Remote Album", Status |-> status, Date |-> Date1999]

ReleasesBodies ==
    {<<>>, <<Release("rel-1", "Bootleg"), Release("rel-2", "Official")>>}

\* one track of a medium of a release (inc=recordings): the length is in
\* milliseconds, 0 when the provider sends none
MediumTrack(pos, num, title, ms) ==
    [Position |-> pos, Number |-> num, Title |-> title, Length |-> ms]

RecordingsBodies ==
    {<<>>,
     <<[Position |-> 1,
        Tracks |-> <<MediumTrack(1, <<"1">>, "One", 301000),
                     MediumTrack(2, <<"2">>, "Two", 0)>>]>>}

ArtistResponses(id) ==
    Failures \cup {[code |-> 200, body |-> b] : b \in ArtistBodies(id)}
ReleaseGroupResponses(id) ==
    Failures \cup {[code |-> 200, body |-> b] : b \in ReleaseGroupBodies(id)}
ListingResponses == Failures \cup {[code |-> 200, body |-> b] : b \in ListingBodies}

\* Client.selectBestRelease: the first Official release, else the first
\* release, else the empty identifier
RECURSIVE firstOfficial(_)
firstOfficial(releases) ==
    IF releases = <<>> THEN <<>>
    ELSE IF Head(releases).Status = "Official" THEN <<Head(releases).ID>>
    ELSE firstOfficial(Tail(releases))

\* faulty variant: the first release is taken whatever its status
selectFirstRelease(releases) ==
    IF Len(releases) > 0 THEN releases[1].ID ELSE ""

selectBestRelease(releases) ==
    IF firstOfficial(releases) # <<>> THEN firstOfficial(releases)[1]
    ELSE IF Len(releases) > 0 THEN releases[1].ID
    ELSE ""

ReleasesResponses == Failures \cup {[code |-> 200, body |-> b] : b \in ReleasesBodies}
RecordingsResponses == Failures \cup {[code |-> 200, body |-> b] : b \in RecordingsBodies}
\* GetReleaseGroupTracks asks for the releases of the group and then, when
\* that succeeded, for the recordings of one release; each request can be
\* answered in every way, whatever release identifier the second one carries
TrackResponses == [rel : ReleasesResponses, rec : RecordingsResponses]

\* what the biography provider can answer to a page summary request: a
\* failure, or 200 with a page type and an extract; the extract is empty, a
\* disambiguation text ("... may refer to ...") or a text that cleanExtract
\* leaves as it is (one short sentence, no pronunciation or listen note)
PageAnswers ==
    Failures \cup
    {[code |-> 200, type |-> t, extract |-> e] :
        t \in {"standard", "disambiguation"},
        e \in {"", "Remote may refer to:", "Biography text."}}

\* the page titles GetArtistBiography asks for, in its order
TitleVariants(name) ==
    <<<<name, "">>, <<name, " (band)">>, <<name, " (musician)">>, <<name, " (singer)">>>>

\* the biography provider as the server meets it: every title answered alike,
\* or the plain title missing and the variants present
BiographyResponses ==
    {[pages |-> [i \in 1..4 |-> a]] :
        a \in Failures \cup {[code |-> 200, type |-> "standard",
                               extract |-> "Biography text."]}}
    \cup {[pages |-> [i \in 1..4 |->
                        IF i = 1 THEN [code |-> 404]
                        ELSE [code |-> 200, type |-> "standard",
                              extract |-> "Biography text."]]]}

\* Client.LookupArtist / Client.LookupReleaseGroup: 200 is the record, 404 is
\* ErrNotFound, everything else another error
LookupResult(resp) ==
    IF resp.code = 200 THEN [err |-> "nil", val |-> resp.body]
    ELSE IF resp.code = 404 THEN [err |-> "ErrNotFound"]
    ELSE [err |-> "other"]

\* Client.GetArtistReleaseGroups: anything but 200 is an error
GetArtistReleaseGroupsResult(resp, artistID) ==
    IF resp.code = 200
    THEN [err |-> "nil", val |-> transformReleaseGroupSearchResult(resp.body, artistID)]
    ELSE [err |-> "other"]

\* fetchReleaseGroupWithReleases / getReleaseRecordings: the status switch
\* shared by the lookups
fetchResult(resp) ==
    IF resp.code = 200 THEN [err |-> "nil", val |-> resp.body]
    ELSE IF resp.code = 404 THEN [err |-> "ErrNotFound"]
    ELSE [err |-> "other"]

\* fmt.Sprintf("%d", n) for n >= 0
RECURSIVE Itoa(_)
Itoa(n) ==
    IF n < 10 THEN <<DigitChar(n)>>
    ELSE Append(Itoa(n \div 10), DigitChar(n % 10))

\* fmt.Sprintf("%02d", n) for n >= 0
Pad2(n) == IF n < 10 THEN <<"0">> \o Itoa(n) ELSE Itoa(n)

\* faulty variant: a track without a length is given the length 0:00
trackLengthOfZero(ms) ==
    IF ms >= 0
    THEN Itoa((ms \div 1000) \div 60) \o <<":">> \o Pad2((ms \div 1000) % 60)
    ELSE <<>>

\* the length of a track as transformReleaseTracks derives it
trackLength(ms) ==
    IF ms > 0
    THEN LET seconds == ms \div 1000
             minutes == seconds \div 60
             remainingSeconds == seconds % 60
         IN  Itoa(minutes) \o <<":">> \o Pad2(remainingSeconds)
    ELSE <<>>

\* the number of a track: its position, else its number when that parses
trackNumber(track) ==
    IF track.Position = 0
    THEN IF Atoi(track.Number).ok THEN Atoi(track.Number).n ELSE 0
    ELSE track.Position

RECURSIVE flattenMedia(_)
flattenMedia(media) ==
    IF media = <<>> THEN <<>> ELSE Head(media).Tracks \o flattenMedia(Tail(media))

\* transformReleaseTracks: the tracks of all media, in order
transformReleaseTracks(media) ==
    LET all == flattenMedia(media)
    IN  [i \in 1..Len(all) |->
            [Number |-> trackNumber(all[i]),
             Title |-> all[i].Title,
             Length |-> trackLength(all[i].Length)]]

\* Client.getReleaseRecordings
getReleaseRecordings(releaseID, resp) ==
    LET r == fetchResult(resp)
    IN  IF r.err = "nil" THEN [err |-> "nil", val |-> transformReleaseTracks(r.val)]
        ELSE r

\* Client.GetReleaseGroupTracks: a failure to find the representative
\* release is wrapped, then the recordings of the chosen release are fetched
\* (reqs lists the HTTP requests the call has made)
GetReleaseGroupTracksResult(resp) ==
    LET g == fetchResult(resp.rel)
        releaseID == selectBestRelease(g.val)
        t == getReleaseRecordings(releaseID, resp.rec)
    IN  IF g.err # "nil"
        THEN [err |-> "representative release: " \o g.err,
              reqs |-> <<[endpoint |-> "release-group"]>>]
        ELSE [f \in DOMAIN t \cup {"reqs"} |->
                 IF f = "reqs"
                 THEN <<[endpoint |-> "release-group"],
                        [endpoint |-> "release", id |-> releaseID]>>
                 ELSE t[f]]

\* wikipedia Client.getPageSummary: a disambiguation page is ErrNotFound
getPageSummary(resp) ==
    IF resp.code = 200
    THEN IF resp.type = "disambiguation" \/ resp.extract = "Remote may refer to:"
         THEN [err |-> "ErrNotFound", extract |-> ""]
         ELSE [err |-> "nil", extract |-> resp.extract]
    ELSE IF resp.code = 404 THEN [err |-> "ErrNotFound", extract |-> ""]
    ELSE [err |-> "other", extract |-> ""]

\* the attempts of GetArtistBiography from the i-th title on, where err is
\* the error of the attempt before: an attempt is made only after
\* ErrNotFound, it ends the call when it has err == nil and an extract, and
\* the call ends with ErrNotFound when no attempt is left or made
RECURSIVE biographyAttempts(_, _, _, _)
biographyAttempts(i, err, pages, tried) ==
    IF i > 4 \/ err # "ErrNotFound"
    THEN [err |-> "ErrNotFound", val |-> "", tried |-> tried]
    ELSE LET s == getPageSummary(pages[i])
         IN  IF s.err = "nil" /\ s.extract # ""
             THEN [err |-> "nil", val |-> s.extract, tried |-> Append(tried, i)]
             ELSE biographyAttempts(i + 1, s.err, pages, Append(tried, i))

\* wikipedia Client.GetArtistBiography: the first attempt is unconditional;
\* tried lists the titles asked for
GetArtistBiography(name, pages) ==
    IF IsBlank(name) THEN [err |-> "other", val |-> "", tried |-> <<>>]
    ELSE LET b == biographyAttempts(1, "ErrNotFound", pages, <<>>)
         IN  [b EXCEPT !.tried = [j \in DOMAIN b.tried |->
                                     TitleVariants(name)[b.tried[j]]]]

----------------------------------------------------------------------------
(* Router transforms (package api) *)

\* data.Review{}; the summary and the URL are built by Sprintf and are kept
\* as the format with its arguments, <<>> being the empty string
ZeroReview ==
    [Source |-> "", Author |-> "", Rating |-> 0, Summary |-> <<>>, Text |-> "", URL |-> <<>>]

\* transformArtist: a new data.Artist on the heap
transformArtist(h, src) ==
    LET g == newStrings(h, src.Tags)
        a == newStrings(g.h, src.Aliases)
    IN  AllocArt(a.h,
            [ID |-> src.ID, Name |-> src.Name, Biography |-> "",
             Genres |-> g.p, Albums |-> NIL, Related |-> NIL, Aliases |-> a.p])

\* the data.Album literal shared by transformAlbum and transformReleaseGroupsToAlbums
albumFromReleaseGroup(h, rg) ==
    LET st == newStrings(h, rg.SecondaryTypes)
    IN  [h |-> st.h,
         v |-> [ID |-> rg.ID, Title |-> rg.Title,
                ArtistID |-> PrimaryArtistID(rg),
                ArtistName |-> PrimaryArtistName(rg),
                PrimaryType |-> rg.PrimaryType,
                SecondaryTypes |-> st.p,
                FirstReleaseDate |-> rg.FirstReleaseDate,
                Year |-> ReleaseYear(rg),
                Tracks |-> NIL,
                Review |-> ZeroReview]]

transformAlbum(h, rg) ==
    LET c == albumFromReleaseGroup(h, rg) IN AllocAlb(c.h, c.v)

\* transformTracks: nil for no tracks, else a fresh []data.Track
transformTracks(h, mbTracks) ==
    IF Len(mbTracks) = 0 THEN [h |-> h, p |-> NIL]
    ELSE AllocT(h, [i \in 1..Len(mbTracks) |->
                      [Number |-> mbTracks[i].Number,
                       Title |-> mbTracks[i].Title,
                       Length |-> mbTracks[i].Length]])

RECURSIVE releaseGroupsLoop(_, _, _)
releaseGroupsLoop(h, rgs, acc) ==
    IF rgs = <<>> THEN [h |-> h, v |-> acc]
    ELSE LET c == albumFromReleaseGroup(h, Head(rgs))
         IN  releaseGroupsLoop(c.h, Tail(rgs), Append(acc, c.v))

transformReleaseGroupsToAlbums(h, rgs) ==
    IF Len(rgs) = 0 THEN [h |-> h, p |-> NIL]
    ELSE LET c == releaseGroupsLoop(h, rgs, <<>>) IN AllocA(c.h, c.v)

----------------------------------------------------------------------------
(* Repository (package db): MemoryStore and SQLiteStore *)

\* MemoryStore.GetArtist: a clone of the stored record, or (nil, nil)
MemGetArtist(h, m, id) ==
    IF m.artists[id] = NIL THEN [h |-> h, p |-> NIL, err |-> FALSE]
    ELSE LET c == cloneArtist(h, m.artists[id])
         IN  [h |-> c.h, p |-> c.p, err |-> FALSE]

\* MemoryStore.SaveArtist: validation, then a clone stored under artist.ID
MemSaveArtist(h, m, p) ==
    IF p = NIL THEN [h |-> h, m |-> m, err |-> TRUE]
    ELSE IF IsBlank(h.art[p].ID) THEN [h |-> h, m |-> m, err |-> TRUE]
    ELSE LET c == cloneArtist(h, p)
         IN  [h |-> c.h, m |-> [m EXCEPT !.artists[h.art[p].ID] = c.p], err |-> FALSE]

MemGetAlbum(h, m, id) ==
    IF m.albums[id] = NIL THEN [h |-> h, p |-> NIL, err |-> FALSE]
    ELSE LET c == cloneAlbum(h, m.albums[id])
         IN  [h |-> c.h, p |-> c.p, err |-> FALSE]

MemSaveAlbum(h, m, p) ==
    IF p = NIL THEN [h |-> h, m |-> m, err |-> TRUE]
    ELSE IF IsBlank(h.alb[p].ID) THEN [h |-> h, m |-> m, err |-> TRUE]
    ELSE LET c == cloneAlbum(h, p)
         IN  [h |-> c.h, m |-> [m EXCEPT !.albums[h.alb[p].ID] = c.p], err |-> FALSE]

\* json.Marshal of a record: the payload carries the values, no reference
marshalArtist(h, p) == ArtistVal(h, p)
marshalAlbum(h, p) == AlbumVal(h, p)

\* json.Unmarshal into a fresh record: every list is a new slice
unmarshalAlbumStruct(h, v) ==
    LET st == newStrings(h, v.SecondaryTypes)
        tr == IF Len(v.Tracks) = 0 THEN [h |-> st.h, p |-> NIL] ELSE AllocT(st.h, v.Tracks)
    IN  [h |-> tr.h, v |-> [v EXCEPT !.SecondaryTypes = st.p, !.Tracks = tr.p]]

RECURSIVE unmarshalAlbumsLoop(_, _, _)
unmarshalAlbumsLoop(h, vs, acc) ==
    IF vs = <<>> THEN [h |-> h, v |-> acc]
    ELSE LET c == unmarshalAlbumStruct(h, Head(vs))
         IN  unmarshalAlbumsLoop(c.h, Tail(vs), Append(acc, c.v))

unmarshalArtist(h, v) ==
    LET g == newStrings(h, v.Genres)
        r == newStrings(g.h, v.Related)
        a == newStrings(r.h, v.Aliases)
        b == IF Len(v.Albums) = 0 THEN [h |-> a.h, p |-> NIL]
             ELSE LET c == unmarshalAlbumsLoop(a.h, v.Albums, <<>>) IN AllocA(c.h, c.v)
    IN  AllocArt(b.h, [v EXCEPT !.Genres = g.p, !.Related = r.p,
                                !.Aliases = a.p, !.Albums = b.p])

unmarshalAlbum(h, v) ==
    LET c == unmarshalAlbumStruct(h, v) IN AllocAlb(c.h, c.v)

\* SQLiteStore.GetArtist: a failed query is an error, no row is (nil, nil)
\* faulty variant: sql.ErrNoRows is reported like any other failure
SqlGetArtistNoRowsIsError(h, rw, id, fault) ==
    IF fault \/ rw.artists[id] = <<>> THEN [h |-> h, p |-> NIL, err |-> TRUE]
    ELSE LET c == unmarshalArtist(h, rw.artists[id][1])
         IN  [h |-> c.h, p |-> c.p, err |-> FALSE]

SqlGetArtist(h, rw, id, fault) ==
    IF fault THEN [h |-> h, p |-> NIL, err |-> TRUE]
    ELSE IF rw.artists[id] = <<>> THEN [h |-> h, p |-> NIL, err |-> FALSE]
    ELSE LET c == unmarshalArtist(h, rw.artists[id][1])
         IN  [h |-> c.h, p |-> c.p, err |-> FALSE]

\* SQLiteStore.SaveArtist: validation, then INSERT ... ON CONFLICT DO UPDATE
\* faulty variant: a conflicting row is kept (INSERT OR IGNORE)
SqlSaveArtistInsertOnly(h, rw, p, fault) ==
    IF p = NIL THEN [rw |-> rw, err |-> TRUE]
    ELSE IF IsBlank(h.art[p].ID) THEN [rw |-> rw, err |-> TRUE]
    ELSE IF fault THEN [rw |-> rw, err |-> TRUE]
    ELSE IF rw.artists[h.art[p].ID] # <<>> THEN [rw |-> rw, err |-> FALSE]
    ELSE [rw |-> [rw EXCEPT !.artists[h.art[p].ID] = <<marshalArtist(h, p)>>],
          err |-> FALSE]

SqlSaveArtist(h, rw, p, fault) ==
    IF p = NIL THEN [rw |-> rw, err |-> TRUE]
    ELSE IF IsBlank(h.art[p].ID) THEN [rw |-> rw, err |-> TRUE]
    ELSE IF fault THEN [rw |-> rw, err |-> TRUE]
    ELSE [rw |-> [rw EXCEPT !.artists[h.art[p].ID] = <<marshalArtist(h, p)>>],
          err |-> FALSE]

SqlGetAlbum(h, rw, id, fault) ==
    IF fault THEN [h |-> h, p |-> NIL, err |-> TRUE]
    ELSE IF rw.albums[id] = <<>> THEN [h |-> h, p |-> NIL, err |-> FALSE]
    ELSE LET c == unmarshalAlbum(h, rw.albums[id][1])
         IN  [h |-> c.h, p |-> c.p, err |-> FALSE]

SqlSaveAlbum(h, rw, p, fault) ==
    IF p = NIL THEN [rw |-> rw, err |-> TRUE]
    ELSE IF IsBlank(h.alb[p].ID) THEN [rw |-> rw, err |-> TRUE]
    ELSE IF fault THEN [rw |-> rw, err |-> TRUE]
    ELSE [rw |-> [rw EXCEPT !.albums[h.alb[p].ID] = <<marshalAlbum(h, p)>>],
          err |-> FALSE]

\* the db.ArtistRepository / db.AlbumRepository the router was given
RepoGetArtist(h, id, fault) ==
    IF driver = "memory" THEN MemGetArtist(h, mem, id) ELSE SqlGetArtist(h, rows, id, fault)

RepoSaveArtist(h, p, fault) ==
    IF driver = "memory"
    THEN LET r == MemSaveArtist(h, mem, p) IN [h |-> r.h, m |-> r.m, rw |-> rows, err |-> r.err]
    ELSE LET r == SqlSaveArtist(h, rows, p, fault) IN [h |-> h, m |-> mem, rw |-> r.rw, err |-> r.err]

RepoGetAlbum(h, id, fault) ==
    IF driver = "memory" THEN MemGetAlbum(h, mem, id) ELSE SqlGetAlbum(h, rows, id, fault)

RepoSaveAlbum(h, p, fault) ==
    IF driver = "memory"
    THEN LET r == MemSaveAlbum(h, mem, p) IN [h |-> r.h, m |-> r.m, rw |-> rows, err |-> r.err]
    ELSE LET r == SqlSaveAlbum(h, rows, p, fault) IN [h |-> h, m |-> mem, rw |-> r.rw, err |-> r.err]

\* a query or statement of the SQLite store can fail; the memory store cannot
Faults == IF driver = "sqlite" THEN {FALSE, TRUE} ELSE {FALSE}

\* what Get would return for every identifier, as values: <<>> is absent
StoredArtist(id) ==
    IF driver = "memory"
    THEN IF mem.artists[id] = NIL THEN <<>> ELSE <<ArtistVal(heap, mem.artists[id])>>
    ELSE rows.artists[id]

StoredAlbum(id) ==
    IF driver = "memory"
    THEN IF mem.albums[id] = NIL THEN <<>> ELSE <<AlbumVal(heap, mem.albums[id])>>
    ELSE rows.albums[id]

StoreVal ==
    [artists |-> [id \in ArtistIDs |-> StoredArtist(id)],
     albums |-> [id \in AlbumIDs |-> StoredAlbum(id)]]

----------------------------------------------------------------------------
(* Requests: one resolution from the handler's call to its return *)

\* the limit the client falls back to, a faulty choice for the listing calls
ListLimitDefault == 25
ListLimit == 50
ListOffset == 0

StatusOK == 200
StatusBadRequest == 400
StatusNotFound == 404
StatusInternalServerError == 500
StatusBadGateway == 502
StatusServiceUnavailable == 503

IdleReq ==
    [pc |-> "idle", kind |-> "none", id |-> "", rec |-> NIL, name |-> "",
     status |-> 0, msg |-> "", trace |-> <<>>, cached |-> <<>>, val |-> <<>>,
     store0 |-> <<>>, mutated |-> FALSE, cancelAt |-> ""]

\* one call to a collaborator, in the order the calls were made
Call(op, id, limit, offset, res) ==
    [op |-> op, id |-> id, limit |-> limit, offset |-> offset, res |-> res, out |-> <<>>]

\* a release listing, with the release groups it returned
ListCall(id, limit, offset, res) ==
    [op |-> "GetArtistReleaseGroups", id |-> id, limit |-> limit, offset |-> offset,
     res |-> res.err, out |-> IF res.err = "nil" THEN <<res.val>> ELSE <<>>]

RepoRes(g) == IF g.err THEN "other" ELSE "nil"

\* faulty variant: every failed artist lookup is reported as 502
artistLookupErrorAlwaysBadGateway(err) ==
    [status |-> StatusBadGateway, msg |-> "musicbrainz lookup failed"]

\* the switch on the error of mbClient.LookupArtist
artistLookupError(err) ==
    IF err = "ErrNotFound"
    THEN [status |-> StatusNotFound, msg |-> "artist not found"]
    ELSE [status |-> StatusBadGateway, msg |-> "musicbrainz lookup failed"]

\* faulty variant: every failed album lookup is reported as 404
albumLookupErrorAlwaysNotFound(err) ==
    [status |-> StatusNotFound, msg |-> "album not found"]

\* the switch on the error of client.LookupReleaseGroup
albumLookupError(err) ==
    IF err = "ErrNotFound"
    THEN [status |-> StatusNotFound, msg |-> "album not found"]
    ELSE [status |-> StatusBadGateway, msg |-> "musicbrainz lookup failed"]

\* faulty variant: every cached artist is backfilled
NeedsBackfillAlways(h, p) == TRUE

\* artist.Albums == nil || len(artist.Albums) == 0
NeedsBackfill(h, p) == LenA(h, h.art[p].Albums) = 0

\* faulty variant: a failed read is taken for a miss
artistGetDecisionIgnoringError(h, g) ==
    IF g.p # NIL
    THEN IF NeedsBackfill(h, g.p) /\ cfg.mb THEN "backfill" ELSE "return"
    ELSE "lookup"

\* faulty variant: a cached artist without albums is fetched anew
artistGetDecisionRefetching(h, g) ==
    IF g.err THEN "fail"
    ELSE IF g.p # NIL
    THEN IF NeedsBackfill(h, g.p) /\ cfg.mb THEN "lookup" ELSE "return"
    ELSE "lookup"

\* what getOrFetchArtist does with the result of repo.GetArtist
artistGetDecision(h, g) ==
    IF g.err THEN "fail"
    ELSE IF g.p # NIL
    THEN IF NeedsBackfill(h, g.p) /\ cfg.mb THEN "backfill" ELSE "return"
    ELSE "lookup"

\* what getOrFetchAlbum does with the result of repo.GetAlbum
albumGetDecision(g) ==
    IF g.err THEN "fail" ELSE IF g.p # NIL THEN "return" ELSE "lookup"

\* faulty variant: a failed release listing fails the resolution
releasesDecisionFatal(err) == IF err # "nil" THEN "fail" ELSE "albums"

\* the miss path after GetArtistReleaseGroups: an error empties the album list
releasesDecision(err) == IF err # "nil" THEN "empty" ELSE "albums"

\* faulty variant: the record is persisted as soon as it is built
afterLookupSaving(kind) == "save"

\* the statement that follows a successful lookup and the transformation of
\* its result: the first secondary call
afterLookup(kind) == IF kind = "artist" THEN "bio" ELSE "tracks"

\* faulty variant: a failed release listing is asked for again
afterReleasesRetrying(err) == IF err # "nil" THEN "list" ELSE "save"

\* the statement that follows GetArtistReleaseGroups on the miss path: the
\* save, whatever the listing returned
afterReleases(err) == "save"

\* faulty variant: a failed track listing fails the resolution
tracksDecisionFatal(err) == IF err # "nil" THEN "fail" ELSE "tracks"

\* after client.GetReleaseGroupTracks: the tracks are set only when err == nil
tracksDecision(err) == IF err # "nil" THEN "skip" ELSE "tracks"

\* faulty variant: a failed write-back fails the resolution, as on the miss path
backfillSaveDecisionFatal(err) == IF err THEN "fail" ELSE "return"

\* the backfill path after _ = repo.SaveArtist(ctx, artist)
backfillSaveDecision(err) == "return"

\* faulty variant: a failed write is ignored, as on the backfill path
saveDecisionSwallowed(err) == "return"

\* the miss path after repo.SaveArtist / repo.SaveAlbum
saveDecision(err) == IF err THEN "fail" ELSE "return"

\* the answers a call made with the context of the request can get: once the
\* context is cancelled the HTTP client returns the context's error and no
\* response is read
Answers(r, S) ==
    IF r.cancelAt = "" THEN S
    ELSE {x \in S : IF "code" \in DOMAIN x THEN x.code = 0
                    ELSE IF "pages" \in DOMAIN x
                    THEN \A i \in DOMAIN x.pages : x.pages[i].code = 0
                    ELSE x.rel.code = 0 /\ x.rec.code = 0}

\* the outcomes of a Repository call made with the context of the request:
\* database/sql refuses a cancelled context, the memory store ignores it
FaultsOf(r) ==
    IF r.cancelAt = "" THEN Faults ELSE {driver = "sqlite"}

\* return nil, newAPIError(status, msg)
Fail(r, t, status, msg) ==
    [r EXCEPT !.pc = "done", !.status = status, !.msg = msg, !.rec = NIL,
              !.val = <<>>, !.trace = t]

\* return artist, nil
ReturnArtist(r, t, h, p) ==
    [r EXCEPT !.pc = "done", !.status = StatusOK, !.rec = p,
              !.val = <<ArtistVal(h, p)>>, !.trace = t]

\* return album, nil
ReturnAlbum(r, t, h, p) ==
    [r EXCEPT !.pc = "done", !.status = StatusOK, !.rec = p,
              !.val = <<AlbumVal(h, p)>>, !.trace = t]

\* the handler is entered with a parsed identifier; requests are served one
\* at a time: the responses of the finished requests have been delivered (the
\* last one is remembered in prev) and the new request runs in the first slot
Start(p) ==
    /\ ncalls < MaxCalls
    /\ \A q \in Procs : req[q].pc \in {"idle", "done"} /\ p <= q
    /\ \E kind \in {"artist", "album"} :
          \E id \in (IF kind = "artist" THEN RequestArtistIDs ELSE RequestAlbumIDs) :
              req' = [q \in Procs |->
                         IF q = p
                         THEN [IdleReq EXCEPT !.pc = "get", !.kind = kind, !.id = id,
                                              !.store0 = <<StoreVal>>]
                         ELSE IdleReq]
    /\ prev' = IF \E q \in Procs : req[q].pc = "done"
               THEN req[CHOOSE q \in Procs : req[q].pc = "done"]
               ELSE prev
    /\ ncalls' = ncalls + 1
    /\ UNCHANGED <<driver, cfg, heap, mem, rows, fn, tst>>

(* getOrFetchArtist *)

\* repo.GetArtist and the decision taken on its result
ArtistGet(p) ==
    LET r == req[p] IN
    /\ r.pc = "get" /\ r.kind = "artist"
    /\ IF ~cfg.repo
       THEN /\ req' = [req EXCEPT ![p].pc = "lookup"]
            /\ heap' = heap
       ELSE \E fault \in FaultsOf(r) :
              LET g == RepoGetArtist(heap, r.id, fault)
                  t == Append(r.trace, Call("GetArtist", r.id, 0, 0, RepoRes(g)))
                  d == artistGetDecision(g.h, g)
              IN  /\ heap' = g.h
                  /\ req' = [req EXCEPT ![p] =
                        CASE d = "fail" ->
                               Fail(r, t, StatusInternalServerError, "artist lookup failed")
                          [] d = "backfill" ->
                               [r EXCEPT !.pc = "backfill", !.rec = g.p,
                                         !.cached = <<ArtistVal(g.h, g.p)>>, !.trace = t]
                          [] d = "return" ->
                               [ReturnArtist(r, t, g.h, g.p) EXCEPT
                                   !.cached = <<ArtistVal(g.h, g.p)>>]
                          [] d = "lookup" ->
                               [r EXCEPT !.pc = "lookup", !.trace = t]]
    /\ UNCHANGED <<driver, cfg, mem, rows, prev, ncalls, fn, tst>>

\* cached artist without albums: mbClient.GetArtistReleaseGroups(ctx, id, 50, 0)
ArtistBackfill(p) ==
    LET r == req[p] IN
    /\ r.pc = "backfill" /\ r.kind = "artist"
    /\ \E resp \in Answers(r, ListingResponses) :
          LET res == GetArtistReleaseGroupsResult(resp, r.id)
              t == Append(r.trace,
                          ListCall(r.id, ListLimit, ListOffset, res))
          IN  IF res.err = "nil"
              THEN LET a == transformReleaseGroupsToAlbums(heap, res.val)
                   IN  /\ heap' = [a.h EXCEPT !.art[r.rec].Albums = a.p]
                       /\ req' = [req EXCEPT ![p] =
                                     [r EXCEPT !.pc = "backfillSave", !.trace = t]]
              ELSE /\ heap' = heap
                   /\ req' = [req EXCEPT ![p] = ReturnArtist(r, t, heap, r.rec)]
    /\ UNCHANGED <<driver, cfg, mem, rows, prev, ncalls, fn, tst>>

\* _ = repo.SaveArtist(ctx, artist); return artist, nil
ArtistBackfillSave(p) ==
    LET r == req[p] IN
    /\ r.pc = "backfillSave" /\ r.kind = "artist"
    /\ \E fault \in FaultsOf(r) :
          LET s == RepoSaveArtist(heap, r.rec, fault)
              t == Append(r.trace, Call("SaveArtist", heap.art[r.rec].ID, 0, 0, RepoRes(s)))
          IN  /\ heap' = s.h
              /\ mem' = s.m
              /\ rows' = s.rw
              /\ req' = [req EXCEPT ![p] =
                            IF backfillSaveDecision(s.err) = "fail"
                            THEN Fail(r, t, StatusInternalServerError, "artist cache failed")
                            ELSE ReturnArtist(r, t, s.h, r.rec)]
    /\ UNCHANGED <<driver, cfg, prev, ncalls, fn, tst>>

\* mbClient.LookupArtist and transformArtist
ArtistLookup(p) ==
    LET r == req[p] IN
    /\ r.pc = "lookup" /\ r.kind = "artist"
    /\ IF ~cfg.mb
       THEN /\ req' = [req EXCEPT ![p] =
                          Fail(r, r.trace, StatusServiceUnavailable,
                               "musicbrainz client unavailable")]
            /\ heap' = heap
       ELSE \E resp \in Answers(r, ArtistResponses(r.id)) :
              LET res == LookupResult(resp)
                  t == Append(r.trace, Call("LookupArtist", r.id, 0, 0, res.err))
              IN  IF res.err # "nil"
                  THEN /\ req' = [req EXCEPT ![p] =
                                     Fail(r, t, artistLookupError(res.err).status,
                                          artistLookupError(res.err).msg)]
                       /\ heap' = heap
                  ELSE LET d == transformArtist(heap, res.val)
                       IN  /\ heap' = d.h
                           /\ req' = [req EXCEPT ![p] =
                                         [r EXCEPT !.pc = afterLookup("artist"), !.rec = d.p,
                                                   !.name = res.val.Name, !.trace = t]]
    /\ UNCHANGED <<driver, cfg, mem, rows, prev, ncalls, fn, tst>>

\* wikiClient.GetArtistBiography(ctx, remote.Name)
ArtistBiography(p) ==
    LET r == req[p] IN
    /\ r.pc = "bio" /\ r.kind = "artist"
    /\ IF ~cfg.wiki
       THEN /\ req' = [req EXCEPT ![p].pc = "list"]
            /\ heap' = heap
       ELSE \E resp \in Answers(r, BiographyResponses) :
              LET res == GetArtistBiography(r.name, resp.pages)
                  t == Append(r.trace, Call("GetArtistBiography", r.name, 0, 0, res.err))
              IN  /\ heap' = IF res.err = "nil"
                             THEN [heap EXCEPT !.art[r.rec].Biography = res.val]
                             ELSE heap
                  /\ req' = [req EXCEPT ![p] = [r EXCEPT !.pc = "list", !.trace = t]]
    /\ UNCHANGED <<driver, cfg, mem, rows, prev, ncalls, fn, tst>>

\* mbClient.GetArtistReleaseGroups(ctx, id, 50, 0) on the miss path
ArtistReleases(p) ==
    LET r == req[p] IN
    /\ r.pc = "list" /\ r.kind = "artist"
    /\ \E resp \in Answers(r, ListingResponses) :
          LET res == GetArtistReleaseGroupsResult(resp, r.id)
              t == Append(r.trace,
                          ListCall(r.id, ListLimit, ListOffset, res))
              d == releasesDecision(res.err)
          IN  CASE d = "empty" ->
                     /\ heap' = [heap EXCEPT !.art[r.rec].Albums = NIL]
                     /\ req' = [req EXCEPT ![p] =
                                   [r EXCEPT !.pc = afterReleases(res.err), !.trace = t]]
                [] d = "albums" ->
                     LET a == transformReleaseGroupsToAlbums(heap, res.val)
                     IN  /\ heap' = [a.h EXCEPT !.art[r.rec].Albums = a.p]
                         /\ req' = [req EXCEPT ![p] =
                                       [r EXCEPT !.pc = afterReleases(res.err), !.trace = t]]
                [] OTHER ->
                     /\ heap' = heap
                     /\ req' = [req EXCEPT ![p] =
                                   Fail(r, t, StatusBadGateway, "musicbrainz lookup failed")]
    /\ UNCHANGED <<driver, cfg, mem, rows, prev, ncalls, fn, tst>>

\* repo.SaveArtist(ctx, domainArtist) and the return
ArtistSave(p) ==
    LET r == req[p] IN
    /\ r.pc = "save" /\ r.kind = "artist"
    /\ IF ~cfg.repo
       THEN /\ req' = [req EXCEPT ![p] = ReturnArtist(r, r.trace, heap, r.rec)]
            /\ UNCHANGED <<heap, mem, rows>>
       ELSE \E fault \in FaultsOf(r) :
              LET s == RepoSaveArtist(heap, r.rec, fault)
                  t == Append(r.trace,
                              Call("SaveArtist", heap.art[r.rec].ID, 0, 0, RepoRes(s)))
              IN  /\ heap' = s.h
                  /\ mem' = s.m
                  /\ rows' = s.rw
                  /\ req' = [req EXCEPT ![p] =
                                IF saveDecision(s.err) = "fail"
                                THEN Fail(r, t, StatusInternalServerError, "artist cache failed")
                                ELSE ReturnArtist(r, t, s.h, r.rec)]
    /\ UNCHANGED <<driver, cfg, prev, ncalls, fn, tst>>

(* getOrFetchAlbum *)

\* repo.GetAlbum: a stored album is returned at once
AlbumGet(p) ==
    LET r == req[p] IN
    /\ r.pc = "get" /\ r.kind = "album"
    /\ IF ~cfg.repo
       THEN /\ req' = [req EXCEPT ![p].pc = "lookup"]
            /\ heap' = heap
       ELSE \E fault \in FaultsOf(r) :
              LET g == RepoGetAlbum(heap, r.id, fault)
                  t == Append(r.trace, Call("GetAlbum", r.id, 0, 0, RepoRes(g)))
                  d == albumGetDecision(g)
              IN  /\ heap' = g.h
                  /\ req' = [req EXCEPT ![p] =
                        CASE d = "fail" ->
                               Fail(r, t, StatusInternalServerError, "album lookup failed")
                          [] d = "return" ->
                               [ReturnAlbum(r, t, g.h, g.p) EXCEPT
                                   !.cached = <<AlbumVal(g.h, g.p)>>]
                          [] d = "lookup" ->
                               [r EXCEPT !.pc = "lookup", !.trace = t]]
    /\ UNCHANGED <<driver, cfg, mem, rows, prev, ncalls, fn, tst>>

\* client.LookupReleaseGroup and transformAlbum
AlbumLookup(p) ==
    LET r == req[p] IN
    /\ r.pc = "lookup" /\ r.kind = "album"
    /\ IF ~cfg.mb
       THEN /\ req' = [req EXCEPT ![p] =
                          Fail(r, r.trace, StatusServiceUnavailable,
                               "musicbrainz client unavailable")]
            /\ heap' = heap
       ELSE \E resp \in Answers(r, ReleaseGroupResponses(r.id)) :
              LET res == LookupResult(resp)
                  t == Append(r.trace, Call("LookupReleaseGroup", r.id, 0, 0, res.err))
              IN  IF res.err # "nil"
                  THEN /\ req' = [req EXCEPT ![p] =
                                     Fail(r, t, albumLookupError(res.err).status,
                                          albumLookupError(res.err).msg)]
                       /\ heap' = heap
                  ELSE LET d == transformAlbum(heap, res.val)
                       IN  /\ heap' = d.h
                           /\ req' = [req EXCEPT ![p] =
                                         [r EXCEPT !.pc = afterLookup("album"), !.rec = d.p,
                                                   !.trace = t]]
    /\ UNCHANGED <<driver, cfg, mem, rows, prev, ncalls, fn, tst>>

\* client.GetReleaseGroupTracks and transformTracks
AlbumTracks(p) ==
    LET r == req[p] IN
    /\ r.pc = "tracks" /\ r.kind = "album"
    /\ \E resp \in Answers(r, TrackResponses) :
          LET res == GetReleaseGroupTracksResult(resp)
              t == Append(r.trace, Call("GetReleaseGroupTracks", r.id, 0, 0, res.err))
              d == tracksDecision(res.err)
          IN  CASE d = "tracks" ->
                     LET tr == transformTracks(heap, res.val)
                     IN  /\ heap' = [tr.h EXCEPT !.alb[r.rec].Tracks = tr.p]
                         /\ req' = [req EXCEPT ![p] = [r EXCEPT !.pc = "save", !.trace = t]]
                [] d = "skip" ->
                     /\ heap' = heap
                     /\ req' = [req EXCEPT ![p] = [r EXCEPT !.pc = "save", !.trace = t]]
                [] OTHER ->
                     /\ heap' = heap
                     /\ req' = [req EXCEPT ![p] =
                                   Fail(r, t, StatusBadGateway, "musicbrainz lookup failed")]
    /\ UNCHANGED <<driver, cfg, mem, rows, prev, ncalls, fn, tst>>

\* repo.SaveAlbum(ctx, domainAlbum) and the return
AlbumSave(p) ==
    LET r == req[p] IN
    /\ r.pc = "save" /\ r.kind = "album"
    /\ IF ~cfg.repo
       THEN /\ req' = [req EXCEPT ![p] = ReturnAlbum(r, r.trace, heap, r.rec)]
            /\ UNCHANGED <<heap, mem, rows>>
       ELSE \E fault \in FaultsOf(r) :
              LET s == RepoSaveAlbum(heap, r.rec, fault)
                  t == Append(r.trace,
                              Call("SaveAlbum", heap.alb[r.rec].ID, 0, 0, RepoRes(s)))
              IN  /\ heap' = s.h
                  /\ mem' = s.m
                  /\ rows' = s.rw
                  /\ req' = [req EXCEPT ![p] =
                                IF saveDecision(s.err) = "fail"
                                THEN Fail(r, t, StatusInternalServerError, "album cache failed")
                                ELSE ReturnAlbum(r, t, s.h, r.rec)]
    /\ UNCHANGED <<driver, cfg, prev, ncalls, fn, tst>>

(* The caller of a resolution *)

ArtistFields == {"Name", "Genres", "Aliases", "Albums", "AlbumTypes"}
AlbumFields == {"Title", "SecondaryTypes", "Tracks"}

\* an assignment through the returned *data.Artist: a field of the struct, or
\* an element of one of its slices
MutateArtist(h, p, f) ==
    LET a == h.art[p] IN
    CASE f = "Name" -> [h EXCEPT !.art[p].Name = "changed"]
      [] f = "ID" -> [h EXCEPT !.art[p].ID = "a2"]
      [] f = "Genres" ->
            IF a.Genres = NIL THEN h ELSE [h EXCEPT !.S[a.Genres][1] = "changed"]
      [] f = "Albums" ->
            IF a.Albums = NIL THEN h ELSE [h EXCEPT !.A[a.Albums][1].Title = "changed"]
      [] f = "AlbumTypes" ->
            IF a.Albums = NIL \/ h.A[a.Albums][1].SecondaryTypes = NIL THEN h
            ELSE [h EXCEPT !.S[h.A[a.Albums][1].SecondaryTypes][1] = "changed"]
      [] f = "Related" ->
            IF a.Related = NIL THEN h ELSE [h EXCEPT !.S[a.Related][1] = "changed"]
      [] f = "Aliases" ->
            IF a.Aliases = NIL THEN h ELSE [h EXCEPT !.S[a.Aliases][1] = "changed"]
      [] f = "AlbumTracks" ->
            IF a.Albums = NIL \/ h.A[a.Albums][1].Tracks = NIL THEN h
            ELSE [h EXCEPT !.T[h.A[a.Albums][1].Tracks][1].Title = "changed"]

MutateAlbum(h, p, f) ==
    LET a == h.alb[p] IN
    CASE f = "Title" -> [h EXCEPT !.alb[p].Title = "changed"]
      [] f = "ID" -> [h EXCEPT !.alb[p].ID = "r2"]
      [] f = "SecondaryTypes" ->
            IF a.SecondaryTypes = NIL THEN h
            ELSE [h EXCEPT !.S[a.SecondaryTypes][1] = "changed"]
      [] f = "Tracks" ->
            IF a.Tracks = NIL THEN h ELSE [h EXCEPT !.T[a.Tracks][1].Title = "changed"]

\* the caller writes into the record a resolution returned
Mutate(p) ==
    LET r == req[p] IN
    /\ r.pc = "done" /\ r.status = StatusOK /\ ~r.mutated
    /\ \/ /\ r.kind = "artist"
          /\ \E f \in ArtistFields : heap' = MutateArtist(heap, r.rec, f)
       \/ /\ r.kind = "album"
          /\ \E f \in AlbumFields : heap' = MutateAlbum(heap, r.rec, f)
    /\ heap' # heap
    /\ req' = [req EXCEPT ![p].mutated = TRUE]
    /\ UNCHANGED <<driver, cfg, mem, rows, prev, ncalls, fn, tst>>

\* the caller's cancellation signal fires (the client went away, a deadline
\* passed) while the resolution is at one of its calls
Cancel(p) ==
    /\ req[p].pc \notin {"idle", "done"}
    /\ req[p].cancelAt = ""
    /\ req' = [req EXCEPT ![p].cancelAt = req[p].pc]
    /\ UNCHANGED <<driver, cfg, heap, mem, rows, prev, ncalls, fn, tst>>

----------------------------------------------------------------------------
(* Specification: the server as main wires it, one request at a time *)

EmptyMem == [artists |-> [id \in ArtistIDs |-> NIL], albums |-> [id \in AlbumIDs |-> NIL]]
EmptyRows == [artists |-> [id \in ArtistIDs |-> <<>>], albums |-> [id \in AlbumIDs |-> <<>>]]

\* no derivation is being applied on its own
NoFn == [op |-> "none", arg |-> <<>>, out |-> <<>>, done |-> FALSE]

\* nobody uses the Repository but the router
NoTst == [held |-> <<>>, last |-> <<>>, saved |-> EmptyRows, n |-> 0]

\* the server after main has built the store and the router
InitServer ==
    /\ driver \in {"memory", "sqlite"}
    /\ cfg = [repo |-> TRUE, mb |-> TRUE, wiki |-> TRUE]
    /\ heap = EmptyHeap
    /\ mem = EmptyMem
    /\ rows = EmptyRows
    /\ req = [p \in Procs |-> IdleReq]
    /\ prev = IdleReq
    /\ ncalls = 0

Init ==
    /\ InitServer
    /\ fn = NoFn
    /\ tst = NoTst

Next ==
    \/ \E p \in Procs : Start(p)
    \/ \E p \in Procs : ArtistGet(p)
    \/ \E p \in Procs : ArtistBackfill(p)
    \/ \E p \in Procs : ArtistBackfillSave(p)
    \/ \E p \in Procs : ArtistLookup(p)
    \/ \E p \in Procs : ArtistBiography(p)
    \/ \E p \in Procs : ArtistReleases(p)
    \/ \E p \in Procs : ArtistSave(p)
    \/ \E p \in Procs : AlbumGet(p)
    \/ \E p \in Procs : AlbumLookup(p)
    \/ \E p \in Procs : AlbumTracks(p)
    \/ \E p \in Procs : AlbumSave(p)
    \/ \E p \in Procs : Mutate(p)

Spec == Init /\ [][Next]_vars

\* NewRouter(cfg) accepts any RouterConfig: each of MusicBrainz, Wikipedia and
\* the repositories may be nil
InitAnyCfg ==
    /\ driver \in {"memory", "sqlite"}
    /\ cfg \in [repo : BOOLEAN, mb : BOOLEAN, wiki : BOOLEAN]
    /\ heap = EmptyHeap
    /\ mem = EmptyMem
    /\ rows = EmptyRows
    /\ req = [p \in Procs |-> IdleReq]
    /\ prev = IdleReq
    /\ ncalls = 0
    /\ fn = NoFn
    /\ tst = NoTst

SpecAnyCfg == InitAnyCfg /\ [][Next]_vars

\* the server of Spec with callers that may cancel their request
NextCancel ==
    \/ Next
    \/ \E p \in Procs : Cancel(p)

SpecCancel == Init /\ [][NextCancel]_vars

\* the server with requests in flight together: net/http runs each handler
\* in a goroutine of its own and getOrFetchArtist takes no lock, so the
\* resolutions interleave at their collaborator calls
NWorkers == 2

Workers == 1..NWorkers

InitConcurrent ==
    /\ driver \in {"memory", "sqlite"}
    /\ cfg = [repo |-> TRUE, mb |-> TRUE, wiki |-> TRUE]
    /\ heap = EmptyHeap
    /\ mem = EmptyMem
    /\ rows = EmptyRows
    /\ req = [p \in Workers |-> IdleReq]
    /\ prev = IdleReq
    /\ ncalls = 0
    /\ fn = NoFn
    /\ tst = NoTst

\* a request for an artist arrives while others may be in flight
StartConcurrent(p) ==
    /\ ncalls < MaxCalls
    /\ req[p].pc \in {"idle", "done"}
    /\ \E id \in RequestArtistIDs :
          req' = [req EXCEPT ![p] = [IdleReq EXCEPT !.pc = "get", !.kind = "artist",
                                                    !.id = id, !.store0 = <<StoreVal>>]]
    /\ prev' = IF req[p].pc = "done" THEN req[p] ELSE prev
    /\ ncalls' = ncalls + 1
    /\ UNCHANGED <<driver, cfg, heap, mem, rows, fn, tst>>

NextConcurrent ==
    \/ \E p \in Workers : StartConcurrent(p)
    \/ \E p \in Workers : ArtistGet(p)
    \/ \E p \in Workers : ArtistBackfill(p)
    \/ \E p \in Workers : ArtistBackfillSave(p)
    \/ \E p \in Workers : ArtistLookup(p)
    \/ \E p \in Workers : ArtistBiography(p)
    \/ \E p \in Workers : ArtistReleases(p)
    \/ \E p \in Workers : ArtistSave(p)

SpecConcurrent == InitConcurrent /\ [][NextConcurrent]_vars

----------------------------------------------------------------------------
(* Review source (package reviews): Discogs search, then release detail *)

\* what Discogs can answer: an HTTP status (0: the transport failed) and, for
\* 200, a body or text that does not decode
DiscogsFailures ==
    {[code |-> 0], [code |-> 404], [code |-> 429], [code |-> 401], [code |-> 500],
     [code |-> 200, decodes |-> FALSE]}

SearchItem(id) == [ID |-> id, Type |-> "release", Title |-> "Nevermind"]

SearchBodies == {<<>>, <<SearchItem(249504)>>, <<SearchItem(1), SearchItem(249504)>>}

\* a release detail: its community statistics and its notes
DiscogsReleases(id) ==
    {[ID |-> id, Notes |-> notes,
      Community |-> [Have |-> have, Want |-> 0, Rating |-> [Count |-> count, Average |-> 4]]] :
        notes \in {"", "Liner notes"}, have \in {0, 5}, count \in {0, 1043}}

SearchResponses ==
    DiscogsFailures \cup {[code |-> 200, decodes |-> TRUE, body |-> b] : b \in SearchBodies}

DetailResponses ==
    DiscogsFailures \cup
        {[code |-> 200, decodes |-> TRUE, body |-> b] : b \in DiscogsReleases(1) \cup DiscogsReleases(249504)}

\* searchAlbum / getRelease: the status switch, then the decoding
discogsResult(resp) ==
    CASE resp.code = 200 ->
            IF resp.decodes THEN [err |-> "nil", val |-> resp.body]
            ELSE [err |-> "decode"]
      [] resp.code = 404 -> [err |-> "ErrNotFound"]
      [] resp.code = 429 -> [err |-> "ErrRateLimit"]
      [] resp.code = 401 -> [err |-> "ErrUnauthorized"]
      [] resp.code = 0 -> [err |-> "transport"]
      [] OTHER -> [err |-> "discogs api error"]

\* faulty variant: the community average is taken whatever the rating count
convertToReviewAlwaysRated(release) ==
    [Source |-> "Discogs",
     URL |-> <<"https://www.discogs.com/release/", release.ID>>,
     Rating |-> release.Community.Rating.Average,
     Summary |-> <<"Community rating based on %d user ratings",
                   release.Community.Rating.Count>>,
     Text |-> IF release.Notes # "" THEN release.Notes ELSE "",
     Author |-> IF release.Notes # "" THEN "Community" ELSE ""]

\* convertToReview: text built with Sprintf is kept as its format and arguments
convertToReview(release) ==
    LET rated == release.Community.Rating.Count > 0
        noted == release.Notes # ""
        collected == release.Community.Have > 0 \/ release.Community.Want > 0
    IN  [Source |-> "Discogs",
         URL |-> <<"https://www.discogs.com/release/", release.ID>>,
         Rating |-> IF rated THEN release.Community.Rating.Average ELSE 0,
         Summary |-> IF rated
                     THEN <<"Community rating based on %d user ratings",
                            release.Community.Rating.Count>>
                     ELSE IF ~noted /\ collected
                     THEN <<"Collected by %d users, wanted by %d users",
                            release.Community.Have, release.Community.Want>>
                     ELSE <<>>,
         Text |-> IF noted THEN release.Notes ELSE "",
         Author |-> IF noted THEN "Community" ELSE ""]

\* faulty variant: the detail of the last search result is fetched
DiscogsGetAlbumReviewOfLastResult(search, detail) ==
    LET s == discogsResult(search)
    IN  IF s.err # "nil"
        THEN [review |-> <<>>, err |-> s.err, calls |-> <<"search">>]
        ELSE IF Len(s.val) = 0
        THEN [review |-> <<>>, err |-> "ErrNotFound", calls |-> <<"search">>]
        ELSE LET d == discogsResult(detail)
                 calls == <<"search", <<"release", s.val[Len(s.val)].ID>>>>
             IN  IF d.err # "nil"
                 THEN [review |-> <<>>, err |-> d.err, calls |-> calls]
                 ELSE [review |-> <<convertToReview(d.val)>>, err |-> "nil", calls |-> calls]

\* DiscogsClient.GetAlbumReview: the search, then the detail of the first
\* result; review <<>> is the nil *data.Review returned with an error
DiscogsGetAlbumReview(search, detail) ==
    LET s == discogsResult(search)
    IN  IF s.err # "nil"
        THEN [review |-> <<>>, err |-> s.err, calls |-> <<"search">>]
        ELSE IF Len(s.val) = 0
        THEN [review |-> <<>>, err |-> "ErrNotFound", calls |-> <<"search">>]
        ELSE LET d == discogsResult(detail)
                 calls == <<"search", <<"release", s.val[1].ID>>>>
             IN  IF d.err # "nil"
                 THEN [review |-> <<>>, err |-> d.err, calls |-> calls]
                 ELSE [review |-> <<convertToReview(d.val)>>, err |-> "nil", calls |-> calls]

\* faulty variant: the failure of the source is handed to the caller
GetAlbumReviewSurfacing(search, detail) ==
    LET r == DiscogsGetAlbumReview(search, detail)
    IN  IF r.err = "nil" /\ r.review # <<>> THEN [review |-> r.review[1], err |-> "nil"]
        ELSE [review |-> ZeroReview, err |-> r.err]

\* reviews.Client.GetAlbumReview: the Discogs review, else the empty review,
\* never an error
GetAlbumReview(search, detail) ==
    LET r == DiscogsGetAlbumReview(search, detail)
    IN  IF r.err = "nil" /\ r.review # <<>> THEN [review |-> r.review[1], err |-> "nil"]
        ELSE [review |-> ZeroReview, err |-> "nil"]

----------------------------------------------------------------------------
(* Identifier parsing of the lookup handlers *)

ArtistsPrefix == <<"/", "a", "r", "t", "i", "s", "t", "s", "/">>
AlbumsPrefix == <<"/", "a", "l", "b", "u", "m", "s", "/">>

\* parseResourceID(path, prefix, errMsg): strings.TrimPrefix, the check that
\* something was trimmed, strings.TrimSpace, the check for the empty string,
\* then the cut at the first "/"
parseResourceID(path, prefix) ==
    LET hasPrefix == /\ Len(path) >= Len(prefix)
                     /\ SubSeq(path, 1, Len(prefix)) = prefix
        trimmed == IF hasPrefix THEN SubSeq(path, Len(prefix) + 1, Len(path)) ELSE path
        solid == {i \in DOMAIN trimmed : trimmed[i] # " "}
        first == CHOOSE i \in solid : \A j \in solid : i <= j
        last == CHOOSE i \in solid : \A j \in solid : i >= j
        spaced == IF solid = {} THEN <<>> ELSE SubSeq(trimmed, first, last)
        slashes == {i \in DOMAIN spaced : spaced[i] = "/"}
        idx == CHOOSE i \in slashes : \A j \in slashes : i <= j
    IN  IF trimmed = path THEN [id |-> <<>>, err |-> TRUE]
        ELSE IF spaced = <<>> THEN [id |-> <<>>, err |-> TRUE]
        ELSE IF slashes # {} THEN [id |-> SubSeq(spaced, 1, idx - 1), err |-> FALSE]
        ELSE [id |-> spaced, err |-> FALSE]

----------------------------------------------------------------------------
(* Search (searchHandler): a pass-through to the primary provider *)

\* faulty variant: any positive limit is accepted
parseSearchLimitUnbounded(limitStr) ==
    IF limitStr = <<>> THEN 25
    ELSE LET a == Atoi(limitStr)
         IN  IF a.ok /\ a.n > 0 THEN a.n ELSE 25

parseSearchLimit(limitStr) ==
    IF limitStr = <<>> THEN 25
    ELSE LET a == Atoi(limitStr)
         IN  IF a.ok /\ a.n > 0 /\ a.n <= 100 THEN a.n ELSE 25

parseSearchOffset(offsetStr) ==
    IF offsetStr = <<>> THEN 0
    ELSE LET a == Atoi(offsetStr)
         IN  IF a.ok /\ a.n >= 0 THEN a.n ELSE 0

\* the handler of GET /search?q=&limit=&offset=, where res is what
\* client.SearchArtists answers: the status written and the calls made
searchHandler(query, limitStr, offsetStr, res) ==
    IF IsBlank(query)
    THEN [status |-> StatusBadRequest, calls |-> <<>>]
    ELSE LET limit == parseSearchLimit(limitStr)
             offset == parseSearchOffset(offsetStr)
             call == Call("SearchArtists", query, limit, offset, res)
         IN  IF res # "nil"
             THEN [status |-> StatusInternalServerError, calls |-> <<call>>]
             ELSE [status |-> StatusOK, calls |-> <<call>>]

----------------------------------------------------------------------------
(* Specification: the derivations of the clients and of the router, each     *)
(* applied on its own to an input drawn from a bounded set                   *)

MaxCredits == 2
MaxSeconds == 61
MaxDateLen == 5
MaxReleases == 3
MaxParamLen == 3

\* the inputs of the derivations:
\*  - transformAlbum of a release group with every list of up to MaxCredits
\*    artist credits, and with every first release date of up to MaxDateLen
\*    of the characters DateChars, and a full date;
\*  - GetAlbumReview and DiscogsClient.GetAlbumReview for every pair of
\*    answers of the review source to the search and to the detail request;
\*  - transformReleaseTracks of one track of every length of Milliseconds:
\*    absent (0), negative, every second up to MaxSeconds at its first and
\*    last millisecond, and some long tracks;
\*  - selectBestRelease of every list of up to MaxReleases statuses, each
\*    release with an identifier of its own;
\*  - searchHandler with every limit (resp. offset) of up to MaxParamLen of
\*    the characters ParamChars, next to an absent or plain offset (resp.
\*    limit), a blank or plain query, and a search that succeeds or fails;
\*  - parseResourceID of every path of up to MaxParamLen of the characters
\*    PathChars, alone and after each of the two prefixes;
\*  - GetArtistBiography of a plain and of a blank name, for every way the
\*    provider can answer the four titles
FnInputs ==
    LET SeqsUpTo(S, n) == UNION {[1..k -> S] : k \in 0..n}
        FnCall(op, arg) == [op |-> op, arg |-> arg, out |-> <<>>, done |-> FALSE]
        CreditValues ==
            {[Name |-> n, Artist |-> [ID |-> i, Name |-> an]] :
                n \in {"", "Guest"}, i \in {"", "artist-1", "artist-2"},
                an \in {"", "Remote Artist"}}
        ReleaseGroupWith(credits, date) ==
            [ID |-> "r1", Title |-> "Remote Album", PrimaryType |-> "Album",
             SecondaryTypes |-> <<"Live">>, FirstReleaseDate |-> date,
             ArtistCredit |-> credits]
        CreditInputs ==
            {FnCall("transformAlbum", ReleaseGroupWith(c, Date1999)) :
                c \in SeqsUpTo(CreditValues, MaxCredits)}
        ReviewInputs ==
            {FnCall("GetAlbumReview", [search |-> x, detail |-> y]) :
                x \in SearchResponses, y \in DetailResponses}
        DiscogsInputs ==
            {FnCall("DiscogsGetAlbumReview", [search |-> x, detail |-> y]) :
                x \in SearchResponses, y \in DetailResponses}
        Milliseconds ==
            {-1000, -1} \cup {sec * 1000 + ms : sec \in 0..MaxSeconds, ms \in {0, 999}}
                \cup {301000, 599999, 600000, 3599999, 3600000, 6000000}
        DurationInputs ==
            {FnCall("transformReleaseTracks",
                    <<[Position |-> 1,
                       Tracks |-> <<MediumTrack(1, <<"1">>, "One", ms)>>]>>) :
                ms \in Milliseconds}
            \cup {FnCall("transformReleaseTracks",
                         [m \in DOMAIN pos |->
                             [Position |-> m,
                              Tracks |-> [i \in DOMAIN pos[m] |->
                                  MediumTrack(pos[m][i][1], pos[m][i][2],
                                              IF m = 2 THEN "Three"
                                              ELSE IF i = 1 THEN "One" ELSE "Two",
                                              301000)]]]) :
                     pos \in {<<<<<<1, <<"1">>>>, <<2, <<"2">>>>>>>>,
                              <<<<<<1, <<"1">>>>, <<2, <<"2">>>>>>,
                                <<<<1, <<"1">>>>>>>>,
                              <<<<<<0, <<"2">>>>, <<0, <<"A">>>>>>>>,
                              <<<<<<2, <<"1">>>>, <<1, <<"2">>>>>>>>}}
        DateChars == {"0", "1", "9", "-", "+", "T"}
        DateInputs ==
            {FnCall("transformAlbum", ReleaseGroupWith(<<>>, date)) :
                date \in SeqsUpTo(DateChars, MaxDateLen) \cup {Date1999}}
        ReleaseStatuses == {"Official", "Bootleg", "Promotion", "official"}
        ReleaseIDAt(i) ==
            CASE i = 1 -> "rel-1" [] i = 2 -> "rel-2" [] i = 3 -> "rel-3"
              [] i = 4 -> "rel-4" [] OTHER -> "rel-5"
        ReleaseInputs ==
            {FnCall("selectBestRelease",
                    [i \in DOMAIN st |-> Release(ReleaseIDAt(i), st[i])]) :
                st \in SeqsUpTo(ReleaseStatuses, MaxReleases)}
        ParamChars == {"0", "1", "-", "+", "a"}
        Params == SeqsUpTo(ParamChars, MaxParamLen)
        PlainParams == {<<>>, <<"1", "0">>}
        SearchInputs ==
            {FnCall("searchHandler",
                    [q |-> q, limit |-> pr[1], offset |-> pr[2], res |-> res]) :
                q \in {"", " ", "nirvana"},
                pr \in (Params \X PlainParams) \cup (PlainParams \X Params),
                res \in {"nil", "other"}}
        TrackInputs == {FnCall("GetReleaseGroupTracks", r) : r \in TrackResponses}
        BiographyInputs ==
            {FnCall("GetArtistBiography", [name |-> n, pages |-> pg]) :
                n \in {"Remote", " "}, pg \in [1..4 -> PageAnswers]}
        PathChars == {"/", " ", "a"}
        PathInputs ==
            {FnCall("parseResourceID", [path |-> path \o rest, prefix |-> prefix]) :
                path \in {<<>>, ArtistsPrefix, AlbumsPrefix},
                rest \in SeqsUpTo(PathChars, MaxParamLen),
                prefix \in {ArtistsPrefix, AlbumsPrefix}}
    IN  CreditInputs \cup ReviewInputs \cup DurationInputs \cup DateInputs
            \cup ReleaseInputs \cup SearchInputs \cup PathInputs \cup BiographyInputs
            \cup DiscogsInputs \cup TrackInputs

\* transformAlbum(src): the data.Album built from a release group
ApplyTransformAlbum ==
    /\ fn.op = "transformAlbum" /\ ~fn.done
    /\ fn' = [fn EXCEPT !.out = albumFromReleaseGroup(EmptyHeap, fn.arg).v,
                        !.done = TRUE]
    /\ UNCHANGED <<driver, cfg, heap, mem, rows, req, prev, ncalls, tst>>

\* reviews.Client.GetAlbumReview(ctx, artistName, albumTitle)
ApplyGetAlbumReview ==
    /\ fn.op = "GetAlbumReview" /\ ~fn.done
    /\ fn' = [fn EXCEPT !.out = GetAlbumReview(fn.arg.search, fn.arg.detail),
                        !.done = TRUE]
    /\ UNCHANGED <<driver, cfg, heap, mem, rows, req, prev, ncalls, tst>>

\* DiscogsClient.GetAlbumReview(ctx, artistName, albumTitle)
ApplyDiscogsGetAlbumReview ==
    /\ fn.op = "DiscogsGetAlbumReview" /\ ~fn.done
    /\ fn' = [fn EXCEPT !.out = DiscogsGetAlbumReview(fn.arg.search, fn.arg.detail),
                        !.done = TRUE]
    /\ UNCHANGED <<driver, cfg, heap, mem, rows, req, prev, ncalls, tst>>

\* transformReleaseTracks(payload)
ApplyTransformReleaseTracks ==
    /\ fn.op = "transformReleaseTracks" /\ ~fn.done
    /\ fn' = [fn EXCEPT !.out = transformReleaseTracks(fn.arg), !.done = TRUE]
    /\ UNCHANGED <<driver, cfg, heap, mem, rows, req, prev, ncalls, tst>>

\* Client.GetReleaseGroupTracks(ctx, releaseGroupID)
ApplyGetReleaseGroupTracks ==
    /\ fn.op = "GetReleaseGroupTracks" /\ ~fn.done
    /\ fn' = [fn EXCEPT !.out = GetReleaseGroupTracksResult(fn.arg), !.done = TRUE]
    /\ UNCHANGED <<driver, cfg, heap, mem, rows, req, prev, ncalls, tst>>

\* c.selectBestRelease(payload.Releases)
ApplySelectBestRelease ==
    /\ fn.op = "selectBestRelease" /\ ~fn.done
    /\ fn' = [fn EXCEPT !.out = selectBestRelease(fn.arg), !.done = TRUE]
    /\ UNCHANGED <<driver, cfg, heap, mem, rows, req, prev, ncalls, tst>>

\* the handler of /search
ApplySearchHandler ==
    /\ fn.op = "searchHandler" /\ ~fn.done
    /\ fn' = [fn EXCEPT !.out = searchHandler(fn.arg.q, fn.arg.limit, fn.arg.offset,
                                              fn.arg.res),
                        !.done = TRUE]
    /\ UNCHANGED <<driver, cfg, heap, mem, rows, req, prev, ncalls, tst>>

\* wikipedia Client.GetArtistBiography(ctx, artistName)
ApplyGetArtistBiography ==
    /\ fn.op = "GetArtistBiography" /\ ~fn.done
    /\ fn' = [fn EXCEPT !.out = GetArtistBiography(fn.arg.name, fn.arg.pages),
                        !.done = TRUE]
    /\ UNCHANGED <<driver, cfg, heap, mem, rows, req, prev, ncalls, tst>>

\* parseArtistID(r.URL.Path) / parseAlbumID(r.URL.Path)
ApplyParseResourceID ==
    /\ fn.op = "parseResourceID" /\ ~fn.done
    /\ fn' = [fn EXCEPT !.out = parseResourceID(fn.arg.path, fn.arg.prefix),
                        !.done = TRUE]
    /\ UNCHANGED <<driver, cfg, heap, mem, rows, req, prev, ncalls, tst>>

InitFn ==
    /\ InitServer
    /\ driver = "memory"
    /\ fn \in FnInputs
    /\ tst = NoTst

NextFn ==
    \/ ApplyTransformAlbum
    \/ ApplyGetAlbumReview
    \/ ApplyDiscogsGetAlbumReview
    \/ ApplyTransformReleaseTracks
    \/ ApplySelectBestRelease
    \/ ApplyGetReleaseGroupTracks
    \/ ApplySearchHandler
    \/ ApplyParseResourceID
    \/ ApplyGetArtistBiography

SpecFn == InitFn /\ [][NextFn]_vars

----------------------------------------------------------------------------
(* Specification: the Repository used directly, as the tests of package db  *)
(* use it: records are built and saved, read back, and written into         *)

MaxOps == 3

\* the records a caller builds: complete ones, bare ones, and ones whose
\* identifier is empty or blank
AlbumValue(id, title, full) ==
    [ID |-> id, Title |-> title, ArtistID |-> "artist-123", ArtistName |-> "",
     PrimaryType |-> "", SecondaryTypes |-> IF full THEN <<"Live">> ELSE <<>>,
     FirstReleaseDate |-> <<>>, Year |-> 0,
     Tracks |-> IF full
                THEN <<[Number |-> 1, Title |-> "Intro", Length |-> <<"3", ":", "0", "0">>]>>
                ELSE <<>>,
     Review |-> ZeroReview]

ArtistValue(id, name, full) ==
    [ID |-> id, Name |-> name, Biography |-> "",
     Genres |-> IF full THEN <<"rock">> ELSE <<>>,
     Albums |-> IF full THEN <<AlbumValue("album-1", "Album", TRUE)>> ELSE <<>>,
     Related |-> IF full THEN <<"rel">> ELSE <<>>,
     Aliases |-> IF full THEN <<"Alias">> ELSE <<>>]

ArtistValues ==
    {ArtistValue("a1", "Sample Artist", TRUE), ArtistValue("a1", "Updated", FALSE),
     ArtistValue("a2", "Sample Artist", TRUE),
     ArtistValue("", "Sample Artist", FALSE), ArtistValue(" ", "Sample Artist", FALSE)}

AlbumValues ==
    {AlbumValue("r1", "Album Title", TRUE), AlbumValue("r1", "Updated", FALSE),
     AlbumValue("r2", "Album Title", TRUE),
     AlbumValue("", "Album Title", FALSE), AlbumValue(" ", "Album Title", FALSE)}

\* the value of a record the caller holds
HeldVal(h, e) == IF e.kind = "artist" THEN ArtistVal(h, e.p) ELSE AlbumVal(h, e.p)

\* the Repository and the caller after a Save of the record at p of heap h
\* (held is what the caller holds after the call)
SaveStep(h, held, kind, p, fault) ==
    LET s == IF kind = "artist" THEN RepoSaveArtist(h, p, fault)
             ELSE RepoSaveAlbum(h, p, fault)
        v == IF p = NIL THEN <<>>
             ELSE <<HeldVal(h, [kind |-> kind, p |-> p, from |-> "new"])>>
        table == IF kind = "artist" THEN "artists" ELSE "albums"
    IN  /\ heap' = s.h
        /\ mem' = s.m
        /\ rows' = s.rw
        /\ tst' = [tst EXCEPT
                      !.held = held,
                      !.n = @ + 1,
                      !.saved = IF s.err THEN @ ELSE [@ EXCEPT ![table][v[1].ID] = v],
                      !.last = <<[op |-> "Save", kind |-> kind, fault |-> fault,
                                  err |-> s.err, arg |-> v, before |-> StoreVal]>>]

\* Save of a record just built, or of nil; &data.Artist{...} puts the record
\* and each of its non-empty slices on the heap, as decoding its value does
TstSaveNew ==
    /\ tst.n < MaxOps
    /\ \E fault \in Faults :
          \/ \E v \in ArtistValues :
                LET a == unmarshalArtist(heap, v)
                IN  SaveStep(a.h, Append(tst.held, [kind |-> "artist", p |-> a.p, from |-> "new"]),
                             "artist", a.p, fault)
          \/ \E v \in AlbumValues :
                LET a == unmarshalAlbum(heap, v)
                IN  SaveStep(a.h, Append(tst.held, [kind |-> "album", p |-> a.p, from |-> "new"]),
                             "album", a.p, fault)
          \/ \E kind \in {"artist", "album"} :
                SaveStep(heap, tst.held, kind, NIL, fault)
    /\ UNCHANGED <<driver, cfg, req, prev, ncalls, fn>>

\* Save of a record the caller already holds
TstSaveHeld ==
    /\ tst.n < MaxOps
    /\ \E i \in DOMAIN tst.held : \E fault \in Faults :
          SaveStep(heap, tst.held, tst.held[i].kind, tst.held[i].p, fault)
    /\ UNCHANGED <<driver, cfg, req, prev, ncalls, fn>>

\* store.GetArtist / store.GetAlbum; the caller keeps the record it received
TstGet ==
    /\ tst.n < MaxOps
    /\ \E kind \in {"artist", "album"} :
       \E id \in (IF kind = "artist" THEN ArtistIDs ELSE AlbumIDs) :
       \E fault \in Faults :
          LET g == IF kind = "artist" THEN RepoGetArtist(heap, id, fault)
                   ELSE RepoGetAlbum(heap, id, fault)
              e == [kind |-> kind, p |-> g.p, from |-> "Get"]
          IN  /\ heap' = g.h
              /\ tst' = [tst EXCEPT
                            !.held = IF g.p = NIL THEN @ ELSE Append(@, e),
                            !.n = @ + 1,
                            !.last = <<[op |-> "Get", kind |-> kind, id |-> id,
                                        fault |-> fault, err |-> g.err, p |-> g.p,
                                        val |-> IF g.p = NIL THEN <<>>
                                                ELSE <<HeldVal(g.h, e)>>]>>]
    /\ UNCHANGED <<driver, cfg, mem, rows, req, prev, ncalls, fn>>

\* the caller writes into a record it holds
TstMutate ==
    /\ tst.n < MaxOps
    /\ \E i \in DOMAIN tst.held :
          LET e == tst.held[i]
          IN  /\ \/ /\ e.kind = "artist"
                    /\ \E f \in ArtistFields \cup {"ID", "Related", "Aliases", "AlbumTracks"} :
                          heap' = MutateArtist(heap, e.p, f)
                 \/ /\ e.kind = "album"
                    /\ \E f \in AlbumFields \cup {"ID"} : heap' = MutateAlbum(heap, e.p, f)
              /\ heap' # heap
              /\ tst' = [tst EXCEPT !.n = @ + 1,
                                    !.last = <<[op |-> "Mutate", i |-> i,
                                                before |-> StoreVal,
                                                held |-> [j \in DOMAIN tst.held |->
                                                            HeldVal(heap, tst.held[j])]]>>]
    /\ UNCHANGED <<driver, cfg, mem, rows, req, prev, ncalls, fn>>

NextRepo ==
    \/ TstSaveNew
    \/ TstSaveHeld
    \/ TstGet
    \/ TstMutate

SpecRepo == Init /\ [][NextRepo]_vars

----------------------------------------------------------------------------
(* Specification: goroutines calling one MemoryStore concurrently. Each call *)
(* is cut at the points where it can wait or be overtaken: the calls of      *)
(* s.mu and the access to the map under the lock.                            *)

NGoroutines == 3

Goroutines == 1..NGoroutines

IdleGo == [pc |-> "idle", op |-> "", kind |-> "", id |-> "", p |-> NIL,
           val |-> <<>>, err |-> FALSE]

\* sync.RWMutex: w is the goroutine holding the write lock, pending the one
\* inside Lock waiting for the readers to leave, r the goroutines holding
\* a read lock (0 is no goroutine)
FreeMutex == [w |-> 0, pending |-> 0, r |-> {}]

InitMem ==
    /\ InitServer
    /\ driver = "memory"
    /\ fn = NoFn
    /\ tst = [mu |-> FreeMutex, g |-> [t \in Goroutines |-> IdleGo]]

\* a goroutine calls SaveArtist / SaveAlbum with a record it has built (or
\* nil): the validation happens before the lock is asked for
GoSave(t) ==
    /\ tst.g[t].pc = "idle"
    /\ \E kind \in {"artist", "album"} :
       \E v \in (IF kind = "artist"
                 THEN {<<w>> : w \in ArtistValues} \cup {<<>>}
                 ELSE {<<AlbumValue("r1", "Album Title", TRUE)>>}) :
          LET a == IF v = <<>> THEN [h |-> heap, p |-> NIL]
                   ELSE IF kind = "artist" THEN unmarshalArtist(heap, v[1])
                   ELSE unmarshalAlbum(heap, v[1])
              bad == IF v = <<>> THEN TRUE ELSE IsBlank(v[1].ID)
          IN  /\ heap' = a.h
              /\ tst' = [tst EXCEPT !.g[t] =
                            [pc |-> IF bad THEN "done" ELSE "lock",
                             op |-> "Save", kind |-> kind,
                             id |-> IF v = <<>> THEN "" ELSE v[1].ID,
                             p |-> a.p, val |-> v, err |-> bad]]
    /\ UNCHANGED <<driver, cfg, mem, rows, req, prev, ncalls, fn>>

\* a goroutine calls GetArtist / GetAlbum
GoGet(t) ==
    /\ tst.g[t].pc = "idle"
    /\ \E kind \in {"artist", "album"} :
       \E id \in (IF kind = "artist" THEN ArtistIDs ELSE {"r1"}) :
          tst' = [tst EXCEPT !.g[t] = [IdleGo EXCEPT !.pc = "rlock", !.op = "Get",
                                                     !.kind = kind, !.id = id]]
    /\ UNCHANGED <<driver, cfg, heap, mem, rows, req, prev, ncalls, fn>>

\* s.mu.Lock(): once no other writer is inside, the writer announces itself;
\* from then on new readers wait
GoLock(t) ==
    /\ tst.g[t].pc = "lock"
    /\ tst.mu.w = 0 /\ tst.mu.pending = 0
    /\ tst' = [tst EXCEPT !.mu.pending = t, !.g[t].pc = "drain"]
    /\ UNCHANGED <<driver, cfg, heap, mem, rows, req, prev, ncalls, fn>>

\* s.mu.Lock() returns when the readers that were inside have left
GoLocked(t) ==
    /\ tst.g[t].pc = "drain"
    /\ tst.mu.r = {}
    /\ tst' = [tst EXCEPT !.mu.pending = 0, !.mu.w = t, !.g[t].pc = "write"]
    /\ UNCHANGED <<driver, cfg, heap, mem, rows, req, prev, ncalls, fn>>

\* s.artists[artist.ID] = cloneArtist(artist), under the write lock
GoStore(t) ==
    /\ tst.g[t].pc = "write"
    /\ LET s == IF tst.g[t].kind = "artist" THEN MemSaveArtist(heap, mem, tst.g[t].p)
                ELSE MemSaveAlbum(heap, mem, tst.g[t].p)
       IN  /\ heap' = s.h
           /\ mem' = s.m
           /\ tst' = [tst EXCEPT !.g[t].pc = "unlock", !.g[t].err = s.err]
    /\ UNCHANGED <<driver, cfg, rows, req, prev, ncalls, fn>>

\* the deferred s.mu.Unlock(): the readers that waited are let in together
GoUnlock(t) ==
    /\ tst.g[t].pc = "unlock"
    /\ LET waiting == {u \in Goroutines : tst.g[u].pc = "rwait"}
       IN  tst' = [tst EXCEPT
                      !.mu = [w |-> 0, pending |-> 0, r |-> waiting],
                      !.g = [u \in Goroutines |->
                               IF u = t THEN [@[u] EXCEPT !.pc = "done"]
                               ELSE IF u \in waiting THEN [@[u] EXCEPT !.pc = "read"]
                               ELSE @[u]]]
    /\ UNCHANGED <<driver, cfg, heap, mem, rows, req, prev, ncalls, fn>>

\* s.mu.RLock(): returns at once unless a writer is inside or announced
GoRLock(t) ==
    /\ tst.g[t].pc = "rlock"
    /\ tst' = IF tst.mu.w = 0 /\ tst.mu.pending = 0
              THEN [tst EXCEPT !.mu.r = @ \cup {t}, !.g[t].pc = "read"]
              ELSE [tst EXCEPT !.g[t].pc = "rwait"]
    /\ UNCHANGED <<driver, cfg, heap, mem, rows, req, prev, ncalls, fn>>

\* the map lookup and the clone, under the read lock
GoLoad(t) ==
    /\ tst.g[t].pc = "read"
    /\ LET r == IF tst.g[t].kind = "artist" THEN MemGetArtist(heap, mem, tst.g[t].id)
                ELSE MemGetAlbum(heap, mem, tst.g[t].id)
       IN  /\ heap' = r.h
           /\ tst' = [tst EXCEPT
                         !.g[t].pc = "runlock", !.g[t].p = r.p, !.g[t].err = r.err,
                         !.g[t].val = IF r.p = NIL THEN <<>>
                                      ELSE <<HeldVal(r.h, [kind |-> tst.g[t].kind,
                                                           p |-> r.p])>>]
    /\ UNCHANGED <<driver, cfg, mem, rows, req, prev, ncalls, fn>>

\* the deferred s.mu.RUnlock()
GoRUnlock(t) ==
    /\ tst.g[t].pc = "runlock"
    /\ tst' = [tst EXCEPT !.mu.r = @ \ {t}, !.g[t].pc = "done"]
    /\ UNCHANGED <<driver, cfg, heap, mem, rows, req, prev, ncalls, fn>>

NextMem ==
    \/ \E t \in Goroutines : GoSave(t)
    \/ \E t \in Goroutines : GoGet(t)
    \/ \E t \in Goroutines : GoLock(t)
    \/ \E t \in Goroutines : GoLocked(t)
    \/ \E t \in Goroutines : GoStore(t)
    \/ \E t \in Goroutines : GoUnlock(t)
    \/ \E t \in Goroutines : GoRLock(t)
    \/ \E t \in Goroutines : GoLoad(t)
    \/ \E t \in Goroutines : GoRUnlock(t)

SpecMem == InitMem /\ [][NextMem]_vars

----------------------------------------------------------------------------
(* Specification: the search page of the frontend. HttpClient.get returns a  *)
(* cold observable: nothing is sent when it is built and every subscribe     *)
(* sends a request of its own, answered to that subscriber alone. A call of  *)
(* performSearch runs to its end before any response is delivered.           *)

MaxSearches == 3

SearchQueries == {"nirvana", "queen"}

\* the page and the service after construction: no request sent, the
\* BehaviorSubject holds null (<<>>)
InitFrontend ==
    /\ InitServer
    /\ driver = "memory"
    /\ fn = NoFn
    /\ tst = [searches |-> 0, gets |-> 0, inflight |-> <<>>,
              serviceSearching |-> FALSE, isSearching |-> FALSE,
              subject |-> <<>>, searchResults |-> <<>>]

\* searchObservable.subscribe(...) by the named subscriber: one GET /search
subscribe(t, query, who) ==
    [t EXCEPT !.gets = @ + 1,
              !.inflight = Append(@, [q |-> query, limit |-> <<"1", "0">>,
                                      offset |-> <<>>, to |-> who])]

\* SearchComponent.performSearch(query), with the call of
\* SearchService.searchArtists({query, limit: 10}) it makes: the service
\* subscribes to the observable it built and returns it, and the component
\* subscribes to what it was returned
performSearch(query) ==
    /\ tst.searches < MaxSearches
    /\ tst' = subscribe(subscribe([tst EXCEPT !.searches = @ + 1,
                                              !.isSearching = TRUE,
                                              !.serviceSearching = TRUE],
                                  query, "service"),
                        query, "component")
    /\ UNCHANGED <<driver, cfg, heap, mem, rows, req, prev, ncalls, fn>>

\* the backend answers the i-th request in flight and the callbacks of its
\* subscriber run; the component's subscription to searchResults$ copies
\* what the service publishes
HttpResponse(i, res) ==
    /\ i \in DOMAIN tst.inflight
    /\ LET r == tst.inflight[i]
           status == searchHandler(r.q, r.limit, r.offset, res).status
           rest == SubSeq(tst.inflight, 1, i - 1)
                      \o SubSeq(tst.inflight, i + 1, Len(tst.inflight))
           result == <<[query |-> r.q]>>
       IN  tst' = IF r.to = "service"
                  THEN IF status = StatusOK
                       THEN [tst EXCEPT !.inflight = rest, !.subject = result,
                                        !.searchResults = result,
                                        !.serviceSearching = FALSE]
                       ELSE [tst EXCEPT !.inflight = rest, !.serviceSearching = FALSE]
                  ELSE [tst EXCEPT !.inflight = rest, !.isSearching = FALSE]
    /\ UNCHANGED <<driver, cfg, heap, mem, rows, req, prev, ncalls, fn>>

\* SearchComponent.clearSearch()
clearSearch ==
    /\ tst.subject # <<>> \/ tst.searchResults # <<>>
    /\ tst' = [tst EXCEPT !.subject = <<>>, !.searchResults = <<>>]
    /\ UNCHANGED <<driver, cfg, heap, mem, rows, req, prev, ncalls, fn>>

NextFrontend ==
    \/ \E query \in SearchQueries : performSearch(query)
    \/ \E i \in 1..(2 * MaxSearches) : \E res \in {"nil", "other"} : HttpResponse(i, res)
    \/ clearSearch

SpecFrontend == InitFrontend /\ [][NextFrontend]_vars

----------------------------------------------------------------------------
(* Vocabulary of the properties *)

PrimaryOps ==
    {"LookupArtist", "LookupReleaseGroup", "GetArtistReleaseGroups", "GetReleaseGroupTracks"}
UpstreamOps == PrimaryOps \cup {"GetArtistBiography"}
SaveOps == {"SaveArtist", "SaveAlbum"}
GetOps == {"GetArtist", "GetAlbum"}

CallsOf(r, ops) == {i \in DOMAIN r.trace : r.trace[i].op \in ops}
CountOf(r, ops) == Cardinality(CallsOf(r, ops))
HasCall(r, op, res) ==
    \E i \in DOMAIN r.trace : r.trace[i].op = op /\ r.trace[i].res = res
FailedCall(r, op) ==
    \E i \in DOMAIN r.trace : r.trace[i].op = op /\ r.trace[i].res # "nil"

Returned(r, kind) == r.pc = "done" /\ r.kind = kind
Succeeded(r, kind) == Returned(r, kind) /\ r.status = StatusOK

\* the Repository read of the resolution found nothing / failed / found a record
ReadMiss(r) == r.trace # <<>> /\ r.trace[1].op \in GetOps /\ r.trace[1].res = "nil" /\ r.cached = <<>>
ReadFailed(r) == r.trace # <<>> /\ r.trace[1].op \in GetOps /\ r.trace[1].res # "nil"
ReadHit(r) == r.cached # <<>>

\* the store holds what it held when the resolution started
StoreUntouched(r) == r.store0 = <<StoreVal>>

\* r is a resolution of the identifier of the resolution that returned
\* successfully just before it, and its own Repository read did not fail
SecondAfterSuccess(r, kind) ==
    /\ Returned(r, kind)
    /\ Succeeded(prev, kind)
    /\ prev.id = r.id
    /\ ~ReadFailed(r)

----------------------------------------------------------------------------
(* C1 *)

\* C1: after a ResolveArtist(id) that returned successfully, a second
\* ResolveArtist(id) (whose Repository read does not fail) returns a record
\* equal to the first and makes no Primary Client call, neither the artist
\* lookup nor the release listing, whatever the biography and release-listing
\* calls of the first call did.
C1_ArtistIdempotent ==
    \A p \in Procs :
        SecondAfterSuccess(req[p], "artist") =>
            /\ req[p].status = StatusOK
            /\ req[p].val = prev.val
            /\ CountOf(req[p], PrimaryOps) = 0

(* C2 *)

\* C2: after a ResolveAlbum(id) that returned successfully, a second
\* ResolveAlbum(id) returns a record equal to the first and makes no Primary
\* Client call.
C2_AlbumIdempotent ==
    \A p \in Procs :
        SecondAfterSuccess(req[p], "album") =>
            /\ req[p].status = StatusOK
            /\ req[p].val = prev.val
            /\ CountOf(req[p], PrimaryOps) = 0

(* C3 *)

\* C3: a write of the caller into a record that ResolveArtist returned never
\* changes what the Repository returns afterwards, for any identifier.
C3_MutationIsolated ==
    [][(\E p \in Procs : req[p].kind = "artist" /\ ~req[p].mutated /\ req'[p].mutated)
          => StoreVal' = StoreVal]_vars

\* the caller changed a list of a returned artist and the stored copy kept
\* the value that was returned
C3_Witness ==
    \E p \in Procs :
        /\ Succeeded(req[p], "artist")
        /\ req[p].mutated
        /\ req[p].val[1].ID = req[p].id
        /\ ArtistVal(heap, req[p].rec).Aliases # req[p].val[1].Aliases
        /\ StoredArtist(req[p].id) = req[p].val

(* C4 *)

\* C4: on an artist cache miss a failed artist lookup ends the resolution:
\* ErrNotFound gives 404, any other failure 502; nothing is written and
\* neither the biography nor the release listing is requested.
C4_ArtistLookupFailure ==
    \A p \in Procs :
        (Returned(req[p], "artist") /\ FailedCall(req[p], "LookupArtist")) =>
            /\ req[p].status = IF HasCall(req[p], "LookupArtist", "ErrNotFound")
                               THEN StatusNotFound ELSE StatusBadGateway
            /\ req[p].rec = NIL
            /\ CountOf(req[p], SaveOps) = 0
            /\ CountOf(req[p], {"GetArtistBiography", "GetArtistReleaseGroups"}) = 0
            /\ StoreUntouched(req[p])

\* a miss whose lookup was answered not-found and ended in 404
C4_Witness ==
    \E p \in Procs :
        /\ Returned(req[p], "artist")
        /\ ReadMiss(req[p])
        /\ HasCall(req[p], "LookupArtist", "ErrNotFound")
        /\ req[p].status = StatusNotFound

(* C5 *)

\* C5: on an artist cache miss whose lookup succeeded, a failure of the
\* biography or of the release listing is never surfaced: unless the write
\* to the Repository fails the resolution succeeds, the failed facet is empty
\* and the record is stored.
C5_SecondaryFailuresSwallowed ==
    \A p \in Procs :
        LET r == req[p] IN
        (/\ Returned(r, "artist")
         /\ HasCall(r, "LookupArtist", "nil")
         /\ FailedCall(r, "GetArtistBiography") \/ FailedCall(r, "GetArtistReleaseGroups")) =>
            /\ CountOf(r, {"GetArtistBiography"}) = 1
            /\ CountOf(r, {"GetArtistReleaseGroups"}) = 1
            /\ CountOf(r, SaveOps) = 1
            /\ r.status = IF HasCall(r, "SaveArtist", "nil")
                          THEN StatusOK ELSE StatusInternalServerError
            /\ r.status = StatusOK =>
                  /\ FailedCall(r, "GetArtistBiography") => r.val[1].Biography = ""
                  /\ FailedCall(r, "GetArtistReleaseGroups") => r.val[1].Albums = <<>>
                  /\ StoredArtist(r.val[1].ID) = r.val
            /\ r.status # StatusOK => r.msg = "artist cache failed"

\* both secondary calls failed and the resolution succeeded with the record stored
C5_Witness ==
    \E p \in Procs :
        LET r == req[p] IN
        /\ Succeeded(r, "artist")
        /\ FailedCall(r, "GetArtistBiography")
        /\ FailedCall(r, "GetArtistReleaseGroups")
        /\ r.val[1].Biography = ""
        /\ r.val[1].Albums = <<>>
        /\ StoredArtist(r.val[1].ID) = r.val

(* C6 *)

\* C6: when the Repository read fails, the resolution (artist or album) ends
\* at once with a StoreError (500): the read is its only call, nothing is
\* requested upstream and nothing is written.
C6_ReadFailureIsStoreError ==
    \A p \in Procs :
        ReadFailed(req[p]) =>
            /\ req[p].pc = "done"
            /\ req[p].status = StatusInternalServerError
            /\ req[p].rec = NIL
            /\ Len(req[p].trace) = 1
            /\ StoreUntouched(req[p])

\* a failed read of an identifier the store holds, answered with 500
C6_Witness ==
    \E p \in Procs :
        /\ ReadFailed(req[p])
        /\ req[p].kind = "artist"
        /\ StoredArtist(req[p].id) # <<>>
        /\ req[p].status = StatusInternalServerError

(* C7 *)

\* the record the Repository held under the identifier when the resolution started
StoredAtStart(r) ==
    IF r.kind = "artist" THEN r.store0[1].artists[r.id] ELSE r.store0[1].albums[r.id]

\* C7: a cache hit is terminal: when the Repository holds the artist with a
\* non-empty album list, or holds the album, the resolution returns the stored
\* record as it is, with no call but the read and no write.
C7_CacheHitTerminal ==
    \A p \in Procs :
        LET r == req[p] IN
        (/\ r.kind \in {"artist", "album"}
         /\ ReadHit(r)
         /\ r.kind = "artist" => r.cached[1].Albums # <<>>) =>
            /\ r.pc = "done"
            /\ r.status = StatusOK
            /\ r.val = r.cached
            /\ r.val = StoredAtStart(r)
            /\ Len(r.trace) = 1
            /\ StoreUntouched(r)

\* an artist with albums served from the store
C7_Witness ==
    \E p \in Procs :
        /\ Succeeded(req[p], "artist")
        /\ ReadHit(req[p])
        /\ req[p].cached[1].Albums # <<>>
        /\ req[p].val = StoredAtStart(req[p])

(* C8 *)

\* the album list that transformReleaseGroupsToAlbums builds, as a value
AlbumsOfListing(rgs) ==
    LET a == transformReleaseGroupsToAlbums(EmptyHeap, rgs) IN AlbumsVal(a.h, a.p)

\* C8: when the Repository holds the artist with an empty album list, the
\* resolution makes exactly one release-listing call (id, limit 50, offset 0)
\* and no artist lookup or biography call, and returns without error; if the
\* listing succeeded the returned record is the cached one with the listed
\* albums and it is saved once (stored unless the save fails); if it failed
\* the cached record is returned unchanged and nothing is written.
C8_BackfillAlbumsOnly ==
    \A p \in Procs :
        LET r == req[p] IN
        (Returned(r, "artist") /\ ReadHit(r) /\ r.cached[1].Albums = <<>>) =>
            /\ r.status = StatusOK
            /\ Len(r.trace) >= 2
            /\ r.trace[2].op = "GetArtistReleaseGroups"
            /\ r.trace[2].id = r.id
            /\ r.trace[2].limit = 50
            /\ r.trace[2].offset = 0
            /\ CountOf(r, UpstreamOps) = 1
            /\ IF r.trace[2].res = "nil"
               THEN /\ r.val[1] = [r.cached[1] EXCEPT
                                     !.Albums = AlbumsOfListing(r.trace[2].out[1])]
                    /\ Len(r.trace) = 3
                    /\ r.trace[3].op = "SaveArtist"
                    /\ r.trace[3].res = "nil" => StoredArtist(r.id) = r.val
                    /\ r.trace[3].res # "nil" => StoreUntouched(r)
               ELSE /\ r.val = r.cached
                    /\ Len(r.trace) = 2
                    /\ StoreUntouched(r)

\* a cached artist without albums that was given albums, in the record
\* returned and in the store
C8_Witness ==
    \E p \in Procs :
        LET r == req[p] IN
        /\ Succeeded(r, "artist")
        /\ ReadHit(r)
        /\ r.cached[1].Albums = <<>>
        /\ r.val[1].Albums # <<>>
        /\ StoredArtist(r.id) = r.val

(* C9 *)

StoredUnder(kind, id) == IF kind = "artist" THEN StoredArtist(id) ELSE StoredAlbum(id)

\* C9: on the miss path a failed write to the Repository is fatal: the
\* resolution returns a StoreError (500) and no record, so every record
\* returned by a miss-path resolution is in the Repository.
C9_MissWriteFailureFatal ==
    \A p \in Procs :
        LET r == req[p] IN
        (r.pc = "done" /\ r.kind \in {"artist", "album"} /\ ReadMiss(r)) =>
            /\ (\E i \in CallsOf(r, SaveOps) : r.trace[i].res # "nil") =>
                  /\ r.status = StatusInternalServerError
                  /\ r.rec = NIL
                  /\ r.val = <<>>
            /\ r.status = StatusOK =>
                  /\ \E i \in CallsOf(r, SaveOps) : r.trace[i].res = "nil"
                  /\ StoredUnder(r.kind, r.val[1].ID) = r.val

\* an assembled artist whose write failed: 500 and no record
C9_Witness ==
    \E p \in Procs :
        LET r == req[p] IN
        /\ Returned(r, "artist")
        /\ ReadMiss(r)
        /\ HasCall(r, "LookupArtist", "nil")
        /\ FailedCall(r, "SaveArtist")
        /\ r.status = StatusInternalServerError
        /\ r.rec = NIL

(* C10 *)

\* C10: on an album cache miss a failed album lookup ends the resolution:
\* ErrNotFound gives 404, any other failure 502; nothing is written and the
\* track listing is not requested.
C10_AlbumLookupFailure ==
    \A p \in Procs :
        (Returned(req[p], "album") /\ FailedCall(req[p], "LookupReleaseGroup")) =>
            /\ req[p].status = IF HasCall(req[p], "LookupReleaseGroup", "ErrNotFound")
                               THEN StatusNotFound ELSE StatusBadGateway
            /\ req[p].rec = NIL
            /\ CountOf(req[p], SaveOps) = 0
            /\ CountOf(req[p], {"GetReleaseGroupTracks"}) = 0
            /\ StoreUntouched(req[p])

\* an album miss whose lookup failed otherwise than not-found and ended in 502
C10_Witness ==
    \E p \in Procs :
        /\ Returned(req[p], "album")
        /\ ReadMiss(req[p])
        /\ HasCall(req[p], "LookupReleaseGroup", "other")
        /\ req[p].status = StatusBadGateway

----------------------------------------------------------------------------
(* C11 *)

\* the first credit entry that carries an artist identifier, 0 when none does
FirstWithID(credits) ==
    IF \E i \in DOMAIN credits : credits[i].Artist.ID # ""
    THEN CHOOSE i \in DOMAIN credits :
            /\ credits[i].Artist.ID # ""
            /\ \A j \in 1..(i - 1) : credits[j].Artist.ID = ""
    ELSE 0

\* C11: the album's ArtistID and ArtistName come from the same credit entry,
\* the first one whose artist identifier is non-empty (the name being a name
\* that entry carries); when no credit carries an identifier ArtistID is
\* empty and ArtistName is a name of the first credit.
C11_SameCreditEntry ==
    (fn.op = "transformAlbum" /\ fn.done) =>
        LET c == fn.arg.ArtistCredit
            k == FirstWithID(c)
        IN  IF k # 0
            THEN /\ fn.out.ArtistID = c[k].Artist.ID
                 /\ fn.out.ArtistName \in {c[k].Artist.Name, c[k].Name}
            ELSE /\ fn.out.ArtistID = ""
                 /\ fn.out.ArtistName \in
                        (IF c = <<>> THEN {""} ELSE {c[1].Artist.Name, c[1].Name})

(* C12 *)

\* C12: on an album cache miss whose lookup succeeded, a failure of the track
\* listing, at the search of the representative release or at the fetch of
\* its recordings, is never surfaced: the album is still written, and unless
\* that write fails the resolution succeeds with an empty track list and the
\* album stored.
C12_TrackFailureSwallowed ==
    \A p \in Procs :
        LET r == req[p] IN
        (Returned(r, "album") /\ FailedCall(r, "GetReleaseGroupTracks")) =>
            /\ HasCall(r, "LookupReleaseGroup", "nil")
            /\ CountOf(r, {"GetReleaseGroupTracks"}) = 1
            /\ CountOf(r, SaveOps) = 1
            /\ r.status = IF HasCall(r, "SaveAlbum", "nil")
                          THEN StatusOK ELSE StatusInternalServerError
            /\ r.status = StatusOK =>
                  /\ r.val[1].Tracks = <<>>
                  /\ StoredAlbum(r.val[1].ID) = r.val

\* the representative release was not found and the album was returned and
\* stored without tracks
C12_Witness ==
    \E p \in Procs :
        LET r == req[p] IN
        /\ Succeeded(r, "album")
        /\ HasCall(r, "GetReleaseGroupTracks", "representative release: ErrNotFound")
        /\ r.val[1].Tracks = <<>>
        /\ StoredAlbum(r.val[1].ID) = r.val

(* C13 *)

\* the review source failed: the search failed or found nothing, or the
\* detail of the first result failed
Undecoded(resp) == resp.code # 200 \/ ~resp.decodes

ReviewSourceFailed(arg) ==
    \/ Undecoded(arg.search)
    \/ arg.search.body = <<>>
    \/ Undecoded(arg.detail)

\* C13: whenever the review source fails in any way (not found, empty search
\* result, rate limit, unauthorized, transport or decode failure), the review
\* fetch yields the all-zero Review and no error.
C13_ReviewAbsenceIsNotAnError ==
    (fn.op = "GetAlbumReview" /\ fn.done /\ ReviewSourceFailed(fn.arg)) =>
        /\ fn.out.err = "nil"
        /\ fn.out.review = ZeroReview

\* the search found a release, its detail was refused for the rate limit,
\* and the fetch gave the empty review
C13_Witness ==
    /\ fn.op = "GetAlbumReview" /\ fn.done
    /\ fn.arg.search.code = 200 /\ fn.arg.search.decodes /\ fn.arg.search.body # <<>>
    /\ fn.arg.detail.code = 429
    /\ fn.out = [review |-> ZeroReview, err |-> "nil"]

(* C14 *)

\* text reads as minutes:seconds for the given numbers: decimal minutes
\* without padding, a colon, seconds on exactly two digits
ReadsAs(text, minutes, seconds) ==
    LET colon == Len(text) - 2
    IN  /\ colon >= 2
        /\ text[colon] = ":"
        /\ IsDigits(SubSeq(text, 1, colon - 1))
        /\ IsDigits(SubSeq(text, colon + 1, Len(text)))
        /\ DigitsValue(SubSeq(text, 1, colon - 1)) = minutes
        /\ DigitsValue(SubSeq(text, colon + 1, Len(text))) = seconds
        /\ colon > 2 => text[1] # "0"

\* C14: a track of d milliseconds has the empty length when d <= 0 and
\* otherwise the length minutes:seconds with minutes = d div 60000 and
\* seconds = (d div 1000) mod 60 on two digits.
C14_TrackDuration ==
    (fn.op = "transformReleaseTracks" /\ fn.done) =>
        \A i \in DOMAIN fn.out :
            LET d == flattenMedia(fn.arg)[i].Length
            IN  IF d <= 0 THEN fn.out[i].Length = <<>>
                ELSE ReadsAs(fn.out[i].Length, d \div 60000, (d \div 1000) % 60)

\* 301000 milliseconds became 5:01
C14_Witness ==
    /\ fn.op = "transformReleaseTracks" /\ fn.done
    /\ fn.arg[1].Tracks[1].Length = 301000
    /\ fn.out[1].Length = <<"5", ":", "0", "1">>

(* C15 *)

\* the integer that four characters denote: four decimal digits, or a sign
\* and three decimal digits; <<>> when they denote none
FourCharInteger(p) ==
    LET v(i) == DigitVal(p[i])
    IN  IF \A i \in 1..4 : v(i) >= 0
        THEN <<1000 * v(1) + 100 * v(2) + 10 * v(3) + v(4)>>
        ELSE IF p[1] \in {"+", "-"} /\ \A i \in 2..4 : v(i) >= 0
        THEN <<(IF p[1] = "-" THEN -1 ELSE 1) * (100 * v(2) + 10 * v(3) + v(4))>>
        ELSE <<>>

\* C15: the year of an album is the integer its first release date starts
\* with on four characters; a date shorter than four characters, or whose
\* first four characters are not an integer, gives 0.
C15_ReleaseYear ==
    (fn.op = "transformAlbum" /\ fn.done) =>
        LET date == fn.arg.FirstReleaseDate
        IN  IF Len(date) < 4 THEN fn.out.Year = 0
            ELSE LET n == FourCharInteger(SubSeq(date, 1, 4))
                 IN  fn.out.Year = IF n = <<>> THEN 0 ELSE n[1]

\* 1999-06-01 gave 1999
C15_Witness ==
    /\ fn.op = "transformAlbum" /\ fn.done
    /\ fn.arg.FirstReleaseDate = Date1999
    /\ fn.out.Year = 1999

(* C16 *)

\* C16: of a list of releases the chosen one is the first whose status is
\* exactly "Official", wherever it stands; when none is, it is the first
\* release of the list.
C16_RepresentativeRelease ==
    (fn.op = "selectBestRelease" /\ fn.done /\ fn.arg # <<>>) =>
        LET official == {i \in DOMAIN fn.arg : fn.arg[i].Status = "Official"}
        IN  IF official # {}
            THEN \E i \in official :
                    /\ \A j \in official : i <= j
                    /\ fn.out = fn.arg[i].ID
            ELSE fn.out = fn.arg[1].ID

\* of Bootleg, Official, Promotion the second release was chosen
C16_Witness ==
    /\ fn.op = "selectBestRelease" /\ fn.done
    /\ Len(fn.arg) = 3
    /\ fn.arg[1].Status = "Bootleg" /\ fn.arg[2].Status = "Official"
    /\ fn.arg[3].Status = "Promotion"
    /\ fn.out = fn.arg[2].ID

----------------------------------------------------------------------------
(* Properties of the Repository used directly *)

TableOf(kind) == IF kind = "artist" THEN "artists" ELSE "albums"

\* the last call made on the Repository was a Get that the store answered
AnsweredGet ==
    /\ tst.last # <<>>
    /\ tst.last[1].op = "Get"
    /\ ~tst.last[1].fault

\* no Save of the identifier of the last Get ever succeeded
NeverSaved == tst.saved[TableOf(tst.last[1].kind)][tst.last[1].id] = <<>>

\* C17: a Get that the store answers, for an identifier no Save ever
\* succeeded for, returns no record and no error, for artists and albums,
\* in the memory store and in the SQLite store
C17_GetMissIsAbsent ==
    (AnsweredGet /\ NeverSaved) => (~tst.last[1].err /\ tst.last[1].p = NIL)

\* a miss in a store that holds another record of the same kind
C17_Witness ==
    /\ AnsweredGet
    /\ NeverSaved
    /\ \E id \in DOMAIN tst.saved[TableOf(tst.last[1].kind)] :
          tst.saved[TableOf(tst.last[1].kind)][id] # <<>>
    /\ ~tst.last[1].err
    /\ tst.last[1].p = NIL

\* the last call made on the Repository was a Save that returned no error
SucceededSave ==
    /\ tst.last # <<>>
    /\ tst.last[1].op = "Save"
    /\ ~tst.last[1].err

\* the keys of the Repository: a table and an identifier
StoreKeys ==
    {<<"artists", id>> : id \in ArtistIDs} \cup {<<"albums", id>> : id \in AlbumIDs}

\* the key the last Save wrote
SavedKey == <<TableOf(tst.last[1].kind), tst.last[1].arg[1].ID>>

\* C18: writes are idempotent upserts.  A Get the store answers for an
\* identifier that was saved returns the content of the last successful Save
\* for it; a successful Save leaves under its identifier the content it was
\* given, leaves every other identifier as it was, and leaves the whole store
\* as it was when the record it saves is the one already stored
C18_IdempotentUpsert ==
    /\ (AnsweredGet /\ ~NeverSaved) =>
          /\ ~tst.last[1].err
          /\ tst.last[1].val = tst.saved[TableOf(tst.last[1].kind)][tst.last[1].id]
    /\ SucceededSave =>
          /\ StoreVal[SavedKey[1]][SavedKey[2]] = tst.last[1].arg
          /\ \A k \in StoreKeys \ {SavedKey} :
                StoreVal[k[1]][k[2]] = tst.last[1].before[k[1]][k[2]]
          /\ (tst.last[1].before[SavedKey[1]][SavedKey[2]] = tst.last[1].arg)
                => StoreVal = tst.last[1].before

\* a record saved, saved again with other content, and read back
C18_Witness ==
    /\ driver = "memory"
    /\ AnsweredGet
    /\ Len(tst.held) = 3
    /\ HeldVal(heap, tst.held[1]) = ArtistValue("a1", "Sample Artist", TRUE)
    /\ HeldVal(heap, tst.held[2]) = ArtistValue("a1", "Updated", FALSE)
    /\ tst.last[1].val = <<ArtistValue("a1", "Updated", FALSE)>>

\* the last call made on the Repository was a Save of a nil record or of a
\* record whose identifier is empty or blank
InvalidSave ==
    /\ tst.last # <<>>
    /\ tst.last[1].op = "Save"
    /\ \/ tst.last[1].arg = <<>>
       \/ tst.last[1].arg[1].ID \in {"", " "}

\* C19: every record the Repository holds carries the identifier it is
\* stored under, which is not blank; a Save of a nil record or of a record
\* whose identifier is empty or blank returns an error and leaves the store
\* as it was
C19_StoredIdentifier ==
    /\ \A k \in StoreKeys :
          StoreVal[k[1]][k[2]] # <<>> =>
              /\ StoreVal[k[1]][k[2]][1].ID = k[2]
              /\ StoreVal[k[1]][k[2]][1].ID \notin {"", " "}
    /\ InvalidSave => (tst.last[1].err /\ StoreVal = tst.last[1].before)

\* a record with a blank identifier refused by a store that holds a record
C19_Witness ==
    /\ InvalidSave
    /\ tst.last[1].arg # <<>>
    /\ tst.last[1].arg[1].ID = " "
    /\ tst.last[1].err
    /\ \E k \in StoreKeys : StoreVal[k[1]][k[2]] # <<>>

\* the last step was a write of the caller into a record it holds
WroteIntoHeld ==
    /\ tst.last # <<>>
    /\ tst.last[1].op = "Mutate"

\* C20: the memory store keeps private copies.  What it holds is at all times
\* the content of the last successful Save of every identifier, whatever the
\* caller wrote since into the records it saved or received; a write into
\* one record leaves the store and every other record the caller holds as
\* they were
C20_PrivateCopies ==
    driver = "memory" =>
        /\ StoreVal = tst.saved
        /\ WroteIntoHeld =>
              /\ StoreVal = tst.last[1].before
              /\ \A j \in DOMAIN tst.held \ {tst.last[1].i} :
                    HeldVal(heap, tst.held[j]) = tst.last[1].held[j]

\* a track title changed in a record received from Get, the stored one intact
C20_Witness ==
    /\ driver = "memory"
    /\ WroteIntoHeld
    /\ tst.held[tst.last[1].i].from = "Get"
    /\ tst.held[tst.last[1].i].kind = "artist"
    /\ HeldVal(heap, tst.held[tst.last[1].i]) =
          [ArtistValue("a1", "Sample Artist", TRUE) EXCEPT
              !.Albums[1].Tracks[1].Title = "changed"]
    /\ StoreVal.artists["a1"] = <<ArtistValue("a1", "Sample Artist", TRUE)>>

----------------------------------------------------------------------------
(* Properties of the error boundary *)

\* C21: every resolution that returns an error returns NotFound (404),
\* UpstreamError (502), StoreError (500) or ValidationError (400), whatever
\* the collaborators answer and whichever of them the router was given
C21_FourErrorKinds ==
    \A p \in Procs :
        (req[p].pc = "done" /\ req[p].status # StatusOK) =>
            req[p].status \in {404, 502, 500, 400}

----------------------------------------------------------------------------
(* Properties of the search *)

\* the search was handled and the primary provider was called
Searched == fn.op = "searchHandler" /\ fn.done /\ fn.out.calls # <<>>

\* C22: the limit handed to the primary provider is within 1..100, is the
\* parameter when that reads as a number of 1..100 and 25 when it is absent,
\* unparseable or out of range; the offset is at least 0, is the parameter
\* when that reads as a number >= 0 and 0 otherwise; the only call a search
\* makes is the provider's search, and the Repository is as it was
C22_SearchPaging ==
    (fn.op = "searchHandler" /\ fn.done) =>
        /\ StoreVal = EmptyRows
        /\ Len(fn.out.calls) <= 1
        /\ \A i \in DOMAIN fn.out.calls :
              LET c == fn.out.calls[i]
                  l == Atoi(fn.arg.limit)
                  o == Atoi(fn.arg.offset)
              IN  /\ c.op = "SearchArtists"
                  /\ c.limit \in 1..100
                  /\ c.limit = IF l.ok /\ l.n \in 1..100 THEN l.n ELSE 25
                  /\ c.offset >= 0
                  /\ c.offset = IF o.ok /\ o.n >= 0 THEN o.n ELSE 0

\* a limit over the range is replaced by the default
C22_Witness ==
    /\ Searched
    /\ fn.arg.limit = <<"1", "0", "1">>
    /\ fn.out.calls[1].limit = 25
    /\ fn.out.calls[1].offset = 10

----------------------------------------------------------------------------
(* Properties of the identifier parsing *)

\* C23: for every request path, parseResourceID fails or yields an identifier
\* that is not empty, so that no resolution runs with an empty identifier
C23_NoEmptyIdentifier ==
    (fn.op = "parseResourceID" /\ fn.done) => (fn.out.err \/ fn.out.id # <<>>)

----------------------------------------------------------------------------
(* Properties of the upstream calls of a resolution *)

\* C24: within one resolution every operation of the primary provider (artist
\* lookup, release listing, album lookup, track listing) is called at most
\* once, whatever it answers
C24_NoRetry ==
    \A p \in Procs : \A op \in PrimaryOps : CountOf(req[p], {op}) <= 1

\* a resolution that went on after its lookup succeeded and its release
\* listing failed, each called once
C24_Witness ==
    \E p \in Procs :
        /\ Returned(req[p], "artist")
        /\ HasCall(req[p], "LookupArtist", "nil")
        /\ FailedCall(req[p], "GetArtistReleaseGroups")
        /\ CountOf(req[p], {"LookupArtist"}) = 1
        /\ CountOf(req[p], {"GetArtistReleaseGroups"}) = 1

----------------------------------------------------------------------------
(* Properties of cancellation *)

\* the calls of a resolution that go to an upstream provider
UpstreamSteps == {"lookup", "bio", "list", "tracks", "backfill"}

\* C25: a resolution whose caller cancelled while one of its upstream calls
\* (lookup, biography, release listing, track listing) was in flight does
\* not return a record as a success
C25_CancellationPropagated ==
    \A p \in Procs :
        (req[p].pc = "done" /\ req[p].cancelAt \in UpstreamSteps) =>
            req[p].status # StatusOK

----------------------------------------------------------------------------
(* Properties of the biography provider *)

\* a page summary answer that is a missing page or a disambiguation page
PageNotFound(a) ==
    \/ a.code = 404
    \/ a.code = 200 /\ (a.type = "disambiguation" \/ a.extract = "Remote may refer to:")

\* a page summary answer with content that is not a disambiguation
PageContent(a) == a.code = 200 /\ ~PageNotFound(a) /\ a.extract # ""

\* C26: GetArtistBiography asks for name, name (band), name (musician), name
\* (singer) in that order, goes to the next title exactly when an attempt is
\* not-found, returns the content of the first attempt that has some, and
\* reports not-found only after all four titles were tried
C26_BiographyVariants ==
    (fn.op = "GetArtistBiography" /\ fn.done /\ fn.arg.name = "Remote") =>
        LET n == Len(fn.out.tried)
            pages == fn.arg.pages
        IN  /\ n >= 1
            /\ fn.out.tried =
                 SubSeq(<<<<"Remote", "">>, <<"Remote", " (band)">>,
                          <<"Remote", " (musician)">>, <<"Remote", " (singer)">>>>, 1, n)
            /\ \A i \in 1..(n - 1) : PageNotFound(pages[i])
            /\ ~(n < 4 /\ PageNotFound(pages[n]))
            /\ (fn.out.err = "nil") <=> PageContent(pages[n])
            /\ (fn.out.err = "nil") => fn.out.val = pages[n].extract
            /\ (fn.out.err = "ErrNotFound") => n = 4

----------------------------------------------------------------------------
(* Properties of the review source *)

\* the Discogs fetch was applied
DiscogsFetched == fn.op = "DiscogsGetAlbumReview" /\ fn.done

\* the search was answered with at least one result
SearchFound == ~Undecoded(fn.arg.search) /\ fn.arg.search.body # <<>>

\* C27: the review fetch makes one search call and then at most one detail
\* call; the detail call is made exactly when the search succeeded with at
\* least one result, and for the identifier of the first result; a failed
\* search ends in its error and an empty one in not-found, with no detail call
C27_SearchThenDetail ==
    DiscogsFetched =>
        /\ Len(fn.out.calls) \in {1, 2}
        /\ fn.out.calls[1] = "search"
        /\ (Len(fn.out.calls) = 2) <=> SearchFound
        /\ SearchFound => fn.out.calls[2] = <<"release", fn.arg.search.body[1].ID>>
        /\ ~SearchFound =>
              /\ fn.out.err # "nil"
              /\ fn.out.review = <<>>
              /\ (~Undecoded(fn.arg.search)) => fn.out.err = "ErrNotFound"

\* a search with two results: the detail of the first one is fetched
C27_Witness ==
    /\ DiscogsFetched
    /\ SearchFound
    /\ Len(fn.arg.search.body) = 2
    /\ fn.out.calls = <<"search", <<"release", 1>>>>
    /\ fn.out.err = "nil"

\* C28: in every track list produced for an album (transformReleaseTracks over
\* all media of the release, then transformTracks), the track positions are
\* at least 1 and pairwise distinct, and the tracks keep the order of the
\* release
TracksOfAlbum ==
    LET c == transformTracks(EmptyHeap, fn.out)
    IN  IF c.p = NIL THEN <<>> ELSE c.h.T[c.p]

C28_TrackPositions ==
    (fn.op = "transformReleaseTracks" /\ fn.done) =>
        LET tracks == TracksOfAlbum
            all == flattenMedia(fn.arg)
        IN  /\ Len(tracks) = Len(all)
            /\ \A i \in DOMAIN tracks : tracks[i].Number >= 1
            /\ \A i, j \in DOMAIN tracks :
                   i # j => tracks[i].Number # tracks[j].Number
            /\ \A i \in DOMAIN tracks : tracks[i].Title = all[i].Title

\* C29: in the memory store, concurrent Saves to one identifier are
\* serialized (when they have completed the stored record is the record of
\* one of them, never a mixture), a concurrent Get returns the complete old
\* or the complete new record, and a Get of one identifier never waits for
\* a Save in progress for a different identifier
SavedBy(kind, id) ==
    {tst.g[u].val : u \in {x \in Goroutines :
                              /\ tst.g[x].op = "Save" /\ ~tst.g[x].err
                              /\ tst.g[x].kind = kind /\ tst.g[x].id = id}}

StoredAt(kind, id) ==
    IF kind = "artist"
    THEN IF mem.artists[id] = NIL THEN <<>> ELSE <<ArtistVal(heap, mem.artists[id])>>
    ELSE IF mem.albums[id] = NIL THEN <<>> ELSE <<AlbumVal(heap, mem.albums[id])>>

SavesSerialized ==
    (\A t \in Goroutines : tst.g[t].pc = "done") =>
        /\ \A id \in ArtistIDs :
              StoredAt("artist", id) \in
                 (IF SavedBy("artist", id) = {} THEN {<<>>} ELSE SavedBy("artist", id))
        /\ \A id \in AlbumIDs :
              StoredAt("album", id) \in
                 (IF SavedBy("album", id) = {} THEN {<<>>} ELSE SavedBy("album", id))

GetsWhole ==
    \A t \in Goroutines :
        (tst.g[t].op = "Get" /\ tst.g[t].pc \in {"runlock", "done"}) =>
            tst.g[t].val \in {<<>>} \cup SavedBy(tst.g[t].kind, tst.g[t].id)

\* the writer a waiting reader waits for
WriterInside == IF tst.mu.w # 0 THEN tst.mu.w ELSE tst.mu.pending

GetWaitsOnlyForItsIdentifier ==
    \A t \in Goroutines :
        tst.g[t].pc = "rwait" =>
            /\ tst.g[WriterInside].kind = tst.g[t].kind
            /\ tst.g[WriterInside].id = tst.g[t].id

C29_MemoryStoreConcurrency ==
    /\ SavesSerialized
    /\ GetsWhole
    /\ GetWaitsOnlyForItsIdentifier


\* C30: on the cache-miss path the record is persisted under the requested
\* identifier: whenever ResolveArtist(id) or ResolveAlbum(id) succeeds after a
\* miss, the returned and saved record's ID is id and a Repository Get(id)
\* finds it, whatever identifier the Primary Client put in its response
C30_SavedUnderRequestedID ==
    \A p \in Procs :
        LET r == req[p] IN
        (r.pc = "done" /\ r.kind \in {"artist", "album"} /\ r.status = StatusOK
            /\ ReadMiss(r)) =>
                /\ r.val[1].ID = r.id
                /\ StoredUnder(r.kind, r.id) = r.val

(* C31 *)

\* the Repository answered the read of an artist resolution with a record
ArtistHit(r) ==
    /\ Returned(r, "artist")
    /\ r.trace # <<>>
    /\ r.trace[1].op = "GetArtist"
    /\ r.trace[1].res = "nil"
    /\ StoredAtStart(r) # <<>>

\* C31 as stated: on an artist cache hit the handler neither calls
\* LookupArtist nor writes to the Repository (SaveArtist is not called).
C31_HitNeitherLooksUpNorSaves ==
    \A p \in Procs :
        ArtistHit(req[p]) =>
            /\ CountOf(req[p], {"LookupArtist"}) = 0
            /\ CountOf(req[p], {"SaveArtist"}) = 0

\* C31 amended: on an artist cache hit LookupArtist is never called, and
\* SaveArtist is called once when the cached record had no albums and the
\* release listing succeeded, and not at all otherwise.
C31_HitSavesOnlyBackfill ==
    \A p \in Procs :
        LET r == req[p] IN
        ArtistHit(r) =>
            /\ CountOf(r, {"LookupArtist"}) = 0
            /\ CountOf(r, {"SaveArtist"}) =
                  (IF /\ StoredAtStart(r)[1].Albums = <<>>
                      /\ HasCall(r, "GetArtistReleaseGroups", "nil")
                   THEN 1 ELSE 0)

\* a hit on an artist without albums whose backfill was written back
C31_Witness ==
    \E p \in Procs :
        /\ ArtistHit(req[p])
        /\ StoredAtStart(req[p])[1].Albums = <<>>
        /\ CountOf(req[p], {"SaveArtist"}) = 1
        /\ CountOf(req[p], {"LookupArtist"}) = 0
        /\ req[p].status = StatusOK

(* C32 *)

\* the write-back of a backfill failed after a successful release listing
BackfillWriteFailed(r) ==
    /\ ArtistHit(r)
    /\ StoredAtStart(r)[1].Albums = <<>>
    /\ HasCall(r, "GetArtistReleaseGroups", "nil")
    /\ FailedCall(r, "SaveArtist")

\* C32: on the backfill path a Repository write failure is swallowed: when
\* the release listing succeeds but saving the enriched artist fails, the
\* resolution still returns the enriched record with no error and the stored
\* record stays the previous one, with its empty album list.
C32_BackfillWriteFailureSwallowed ==
    \A p \in Procs :
        LET r == req[p] IN
        BackfillWriteFailed(r) =>
            /\ r.status = StatusOK
            /\ r.msg = ""
            /\ r.val # <<>>
            /\ r.val[1] = [StoredAtStart(r)[1] EXCEPT
                              !.Albums = AlbumsOfListing(r.trace[2].out[1])]
            /\ StoredArtist(r.id) = StoredAtStart(r)
            /\ StoredArtist(r.id)[1].Albums = <<>>
            /\ StoreUntouched(r)

\* the listing brought albums, the write-back failed, the albums were returned
C32_Witness ==
    \E p \in Procs :
        /\ BackfillWriteFailed(req[p])
        /\ req[p].status = StatusOK
        /\ req[p].val[1].Albums # <<>>
        /\ StoredArtist(req[p].id)[1].Albums = <<>>

(* C33 *)

\* C33: in every interleaving of concurrent ResolveArtist calls for one id,
\* once the stored record of the id has a non-empty album list no later
\* Repository write replaces it with a record whose album list is empty.
C33_AlbumsNeverLost ==
    [][\A id \in RequestArtistIDs :
          (StoredArtist(id) # <<>> /\ StoredArtist(id)[1].Albums # <<>>) =>
              (StoredArtist(id)' # <<>> /\ StoredArtist(id)[1].Albums' # <<>>)]_vars

(* C34 *)

\* the operations of the calls of a resolution, in the order they were made
OpsOf(r) == [i \in DOMAIN r.trace |-> r.trace[i].op]

\* C34: a cache-miss resolution follows the order repository read, primary
\* lookup, secondary calls, repository write, return: the Repository is
\* written at most once per resolution, only after the primary lookup
\* succeeded and after every secondary call has finished, and no upstream
\* call is made after the write.
C34_MissOrder ==
    \A p \in Procs :
        LET r == req[p] IN
        (r.kind \in {"artist", "album"} /\ ReadMiss(r)) =>
            /\ CountOf(r, SaveOps) <= 1
            /\ \A i \in CallsOf(r, SaveOps) :
                  /\ i = Len(r.trace)
                  /\ r.trace[2].op \in {"LookupArtist", "LookupReleaseGroup"}
                  /\ r.trace[2].res = "nil"
                  /\ \A j \in CallsOf(r, UpstreamOps) : j < i
            /\ (CountOf(r, SaveOps) = 1 \/ (r.pc = "done" /\ r.status = StatusOK)) =>
                  OpsOf(r) = IF r.kind = "artist"
                             THEN <<"GetArtist", "LookupArtist", "GetArtistBiography",
                                    "GetArtistReleaseGroups", "SaveArtist">>
                             ELSE <<"GetAlbum", "LookupReleaseGroup",
                                    "GetReleaseGroupTracks", "SaveAlbum">>

\* an artist resolved after a miss whose secondary calls both failed and
\* whose record was written last
C34_Witness ==
    \E p \in Procs :
        LET r == req[p] IN
        /\ Succeeded(r, "artist")
        /\ ReadMiss(r)
        /\ FailedCall(r, "GetArtistBiography")
        /\ FailedCall(r, "GetArtistReleaseGroups")
        /\ r.trace[Len(r.trace)].op = "SaveArtist"

(* C35 *)

\* C35: a failure of the primary provider during a search is surfaced as an
\* UpstreamError (502), never as a 500.
C35_SearchFailureIsUpstreamError ==
    (Searched /\ fn.arg.res # "nil") =>
        /\ fn.out.status # StatusInternalServerError
        /\ fn.out.status = StatusBadGateway

(* C36 *)

\* the identifiers of the releases the release group listed
ListedReleases == {fn.arg.rel.body[i].ID : i \in DOMAIN fn.arg.rel.body}

\* C36: GetReleaseGroupTracks requests recordings only for a release of the
\* release group: when the group lists no releases no recordings request is
\* made (none with an empty release identifier) and the call reports a
\* failure or an empty track list.
C36_RecordingsOnlyOfListedRelease ==
    (fn.op = "GetReleaseGroupTracks" /\ fn.done /\ fn.arg.rel.code = 200) =>
        /\ \A i \in DOMAIN fn.out.reqs :
              fn.out.reqs[i].endpoint = "release" =>
                  /\ fn.out.reqs[i].id # ""
                  /\ fn.out.reqs[i].id \in ListedReleases
        /\ fn.arg.rel.body = <<>> =>
              /\ Len(fn.out.reqs) = 1
              /\ fn.out.err # "nil" \/ fn.out.val = <<>>

(* C37 *)

\* a release was fetched from Discogs and converted
Converted == DiscogsFetched /\ fn.out.err = "nil"

\* C37: a Review converted from a fetched Discogs release is never the
\* all-zero value: its Source is "Discogs" and its URL is built from the
\* release identifier; its Rating is the community average when the rating
\* count is > 0 and 0 otherwise; its Author is "Community" and its Text the
\* release notes exactly when the notes are non-empty.
C37_ConvertedReview ==
    Converted =>
        LET release == fn.arg.detail.body
            review == fn.out.review[1]
        IN  /\ review # ZeroReview
            /\ review.Source = "Discogs"
            /\ review.URL = <<"https://www.discogs.com/release/", release.ID>>
            /\ review.Rating = IF release.Community.Rating.Count > 0
                               THEN release.Community.Rating.Average ELSE 0
            /\ release.Notes # "" => (review.Author = "Community" /\ review.Text = release.Notes)
            /\ release.Notes = "" => (review.Author = "" /\ review.Text = "")

\* a release nobody rated, annotated or collected still gives a Discogs review
C37_Witness ==
    /\ Converted
    /\ fn.arg.detail.body.Community.Rating.Count = 0
    /\ fn.arg.detail.body.Community.Rating.Average > 0
    /\ fn.arg.detail.body.Notes = ""
    /\ fn.out.review[1].Rating = 0
    /\ fn.out.review[1].Source = "Discogs"
    /\ fn.out.review[1].Author = ""

(* C38 *)

\* C38: in the frontend every SearchComponent.performSearch(query) causes
\* exactly one HTTP GET to /search: the requests sent are as many as the
\* searches performed.
C38_OneRequestPerSearch == tst.gets = tst.searches

====
